---- MODULE Spec2Model ----
(***************************************************************************)
(* The Telnet session engine of the backend: the connection pools of       *)
(* services/connection_manager.py (ConnectionManager, SwitchManager), the  *)
(* session clients of services/telnet.py (TelnetClient) and                *)
(* services/switch_telnet.py (SwitchClient), their keepalive workers, and  *)
(* the HTTP handlers that use them.                                        *)
(*                                                                         *)
(* The program is single-threaded asyncio: a step of the model is the code *)
(* a task runs between two suspension points (awaits that really suspend: *)
(* open_connection, reader.read, writer.drain, asyncio.sleep).             *)
(* Time is counted in units of 30 seconds.                                 *)
(***************************************************************************)
EXTENDS Integers, Sequences, FiniteSets, TLC

\* ---------------------------------------------------------------- bounds
MaxSessions == 2      \* client objects created in one behaviour
MaxReqs == 2          \* HTTP requests received in one behaviour
MaxTime == 2          \* the clock stops here (60 s)
MaxLoops == 2         \* event loops the process runs one after another
MaxAnswers == 1       \* change-password questions a Huawei device asks
MaxChunks == 2        \* chunks reader.read delivers during one read-until
MaxChunkLen == 3      \* pieces of text in one chunk
MaxSplits == 1        \* chunks of a login that end before the awaited text does
MaxCmds == 3          \* commands in the list of a multi-step operation
MaxText == 7          \* characters of a raw output given to the cleaning
MaxFill == 130        \* rows of the largest ONU state table
MaxRows == 3          \* rows of a state table written out in any order
MaxTokens == 5        \* words of the bandwidth line given to get_dba_rate
MaxRuns == 3          \* provisioning requests served one after the other
MaxIssued == 5        \* commands written to one session's stream
MaxPings == 2         \* keepalive newlines written to one session's stream
MaxMores == 2         \* pagination markers a device sends during one login
MaxOnus == 3          \* unconfigured ONUs one generate_batch_config run goes through
MaxObjs == 3          \* UserSession objects created for one Telegram user
MaxUpdates == 4       \* updates one Telegram user sends
MaxQueue == 2         \* updates waiting in the application's update queue
MaxSide == 2          \* apply_configuration runs side by side on one session
MaxIds == 3           \* highest ONU ID registered on the port at the start

\* ------------------------------------------------------ program constants
KeepaliveSleep == 2   \* asyncio.sleep(60): 60 s
IdleThreshold == 1    \* now - last_activity > 50: more than 50 s is 60 s or more
max_retries == 2      \* detect_uncfg_onts
ReadTimeout == 2      \* _read_until_prompt(timeout=20), counted in units of 10 s
login_timeout == 2     \* _login(timeout=20), counted in units of 10 s
PortLimit == 128      \* `if calculation > 128`
BatchPortLimit == 128 \* `if calculation > 128` of the batch generator

Callers == {"r1", "r2"}
Hosts == {"olt1", "olt2", "sw1"}
Managers == {"olt_manager", "switch_manager"}
Sids == 1..MaxSessions
SwitchDialects == {"huawei", "cisco", "ruijie"}

VARIABLES
    dialect,          \* host -> device family (OLT_OPTIONS / SWITCH_CONFIG)
    connections,      \* host -> pooled client id, 0 when the host has no entry
    current_loop_id,  \* manager -> recorded loop identity, 0 for None
    running_loop,     \* identity of the running event loop
    now,              \* loop.time(), in units of 30 s
    tasks,            \* the handler tasks the server runs side by side
    nreq,             \* HTTP requests received so far
    nsess,            \* client objects created so far
    sess,             \* client id -> the client object and its stream
    call,             \* handler task -> its position and locals
    rd,               \* one _read_until_prompt call looked at chunk by chunk
    lg,               \* one login looked at with a 10 s clock
    ms,               \* one multi-step operation looked at command by command
    pf,               \* one call of a parser or of the output cleaning
    st,               \* one session's stream looked at write by write
    pv,               \* one provisioning run on a pooled session
    al,               \* provisioning runs side by side on one pooled session
    tg                \* one Telegram user's bot session

vars == <<dialect, connections, current_loop_id, running_loop, now, tasks, nreq, nsess, sess, call, rd, lg, ms, pf, st, pv, al, tg>>

\* The closer looks, which the handler tasks' steps leave alone.
sideVars == <<rd, lg, ms, pf, st, pv, al, tg>>

\* ------------------------------------------------------------- dialects

\* ConnectionManager pools TelnetClient, SwitchManager pools SwitchClient.
ManagerOf(h) == IF dialect[h] = "olt" THEN "olt_manager" ELSE "switch_manager"

\* The login sequence of each dialect: what is read, then what is written.
\*   reader "readuntil": StreamReader.readuntil (EOF raises IncompleteReadError)
\*          "pattern":   SwitchClient._read_until_pattern
\*          "prompt":    _read_until_prompt
\*          "hwloop":    the inline loop of _login_huawei
\*   drain: whether the write is followed by await writer.drain()
LoginSteps(d) ==
    CASE d = "olt" ->
           << [reader |-> "readuntil", want |-> "Username:", send |-> "user", drain |-> FALSE],
              [reader |-> "readuntil", want |-> "Password:", send |-> "pass", drain |-> FALSE],
              [reader |-> "prompt",    want |-> "shell",     send |-> "none", drain |-> FALSE] >>
      [] d = "huawei" ->
           << [reader |-> "pattern",   want |-> "username",  send |-> "user", drain |-> TRUE],
              [reader |-> "pattern",   want |-> "password",  send |-> "pass", drain |-> TRUE],
              [reader |-> "hwloop",    want |-> "shell",     send |-> "none", drain |-> FALSE] >>
      [] d = "cisco" ->
           << [reader |-> "pattern",   want |-> "login:",    send |-> "user", drain |-> TRUE],
              [reader |-> "pattern",   want |-> "password:", send |-> "pass", drain |-> TRUE],
              [reader |-> "prompt",    want |-> "shell",     send |-> "none", drain |-> FALSE] >>
      [] d = "ruijie" ->
           << [reader |-> "pattern",   want |-> "password:", send |-> "user", drain |-> TRUE],
              [reader |-> "pattern",   want |-> ">",         send |-> "en",   drain |-> TRUE],
              [reader |-> "pattern",   want |-> "password:", send |-> "pass", drain |-> TRUE],
              [reader |-> "prompt",    want |-> "shell",     send |-> "none", drain |-> FALSE] >>

\* ---------------------------------------------------------------- state

\* A client object right after __init__: no stream, no lock holder.
\*   writer:  "none" (self.writer is None), "open", "closing" (is_closing())
\*   reader:  "none" (self.reader is None), "open"
\*   peer:    "up", or "eof" once the device has closed its side
\*   ka:      the keepalive task: "none", "sleep", "drain", "done", "stopped"
\*   History of the session, kept for the properties:
\*   logins:   how many times the login sequence was started on the stream
\*   prompted: the login read the shell prompt
\*   timedOut / writeFailed: a command's read timed out / write raised on it
NewClient(h) ==
    [host |-> h, dialect |-> dialect[h], loop |-> running_loop,
     writer |-> "none", reader |-> "none", peer |-> "up",
     last_activity |-> 0, lock |-> FALSE,
     ka |-> "none", kaWake |-> 0, logins |-> 0,
     prompted |-> FALSE, timedOut |-> FALSE, writeFailed |-> FALSE]

NoClient ==
    [host |-> "olt1", dialect |-> "olt", loop |-> 0,
     writer |-> "none", reader |-> "none", peer |-> "up",
     last_activity |-> 0, lock |-> FALSE,
     ka |-> "none", kaWake |-> 0, logins |-> 0,
     prompted |-> FALSE, timedOut |-> FALSE, writeFailed |-> FALSE]

\* A handler task between requests.
\*   kind:    the endpoint: "cek" (cek_onu), "cek2" (cek_onu for a second
\*            OLT), "sw" (switch_description),
\*            "detect" (detect_uncfg_onts)
\*   client:  get_connection's local `client`, 0 outside a creation
\*   handler: the endpoint's local `handler`, 0 until get_connection returns
\*   via:     how get_connection returned: "hit" or "new"
\*   lstep:   the login step being read;  nAns: 'n' answers written
\*   opi:     the session operation the endpoint is in
\*   attempt: detect_uncfg_onts' loop variable
\*   ticked:  the clock has advanced during the wait the task is in
\*   res:     how the previous request ended
IdleCall(r) ==
    [pc |-> "idle", kind |-> "none", host |-> "olt1", client |-> 0, handler |-> 0,
     via |-> "none", lstep |-> 0, nAns |-> 0, opi |-> 0, attempt |-> 0,
     opErr |-> FALSE, ticked |-> FALSE, res |-> r]

\* No _read_until_prompt call is being looked at.
NoRead ==
    [pc |-> "idle", chunks |-> <<>>, eof |-> FALSE, pos |-> 0, data |-> <<>>,
     spaces |-> 0, elapsed |-> 0, waited |-> 0]

\* No login is being looked at.
\*   writes:   what login has written, each with whether its trigger was
\*             seen in the data read since the write before it
\*   prompted: the read of the shell prompt ended with the prompt read
\*   asked:    the question the device is waiting to have answered
\*   peer:     "up", or "eof" once the device has closed its side
NoLogin ==
    [pc |-> "idle", dialect |-> "olt", lstep |-> 0, nAns |-> 0, splits |-> 0,
     reads |-> 0, waits |-> 0, elapsed |-> 0, waited |-> 0,
     writes |-> <<>>, prompted |-> FALSE, asked |-> <<>>, peer |-> "up", mores |-> 0]

\* No multi-step operation is being looked at.
NoRun ==
    [pc |-> "idle", kind |-> "none", n |-> 0, idx |-> 0, written |-> <<>>,
     prompts |-> {}, logs |-> <<>>, failedAt |-> 0, step |-> 0, report |-> 0,
     status |-> "none", peer |-> "up", errAt |-> 0]

\* No parser call is being looked at.
\*   arg: the text or list given;  out: what is returned;  exc: what is raised
NoParse ==
    [pc |-> "idle", fn |-> "none", arg |-> <<>>, c600 |-> FALSE, out |-> <<>>,
     exc |-> "none", todo |-> 0]

\* The stream of one logged-in session with nothing written yet.
\*   queue:   commands of the running operation still to be executed
\*   n:       commands written so far; the command being executed is number n
\*   pings:   keepalive newlines written so far
\*   writes:  what writer.write was given, as <<number, terminators>>
\*   owed:    lines the device has received and not answered yet
\*   pending: what the device has sent and no read has taken yet
\*   data:    what the running _read_until_prompt has collected
\*   ret:     what _execute_command returned for command n
NoStream ==
    [pc |-> "idle", queue |-> <<>>, n |-> 0, pings |-> 0, writes |-> <<>>,
     owed |-> <<>>, pending |-> <<>>, data |-> <<>>, ret |-> <<>>]

\* No provisioning run is being looked at.
\*   run:     the request being served;  step: the step of apply_configuration
\*   handler: the client get_connection returned, 0 if it made a new one
\*   cause:   why the run failed;  prev: why the run before it failed
\*   written: configuration commands written by this run
NoProvision ==
    [pc |-> "idle", run |-> 0, step |-> 0, handler |-> 0, cause |-> "none",
     prev |-> "none", written |-> 0]

\* None of the three is being looked at.
\* No side-by-side provisioning is being looked at.
\*   pc:     run -> its position in apply_configuration
\*   onu_id: run -> the ID find_next_available_onu_id returned to it, 0 before
\*   active: the ONU IDs registered on the PON port of the device
NoAlloc == [pc |-> <<>>, onu_id |-> <<>>, active |-> {}]

\* No bot session is being looked at.
\*   queue:    the user's updates fetched and not yet handed to a handler
\*   sent:     updates the user has sent so far
\*   cur:      the UserSession in sessions[user_id], 0 when there is none
\*   nobj:     UserSession objects created so far
\*   obj:      object -> is_busy, a customer selected, ONT and PSB selected,
\*             and whether its TTL has run out
\*   handler:  handler coroutine -> its position, its callback and the
\*             session object get_session gave it
NoChat ==
    [queue |-> <<>>, sent |-> 0, cur |-> 0, nobj |-> 0, obj |-> <<>>, handler |-> <<>>]

NoLooks ==
    /\ pf = NoParse
    /\ st = NoStream
    /\ pv = NoProvision
    /\ al = NoAlloc
    /\ tg = NoChat

Init ==
    /\ rd = NoRead
    /\ lg = NoLogin
    /\ ms = NoRun
    /\ NoLooks
    /\ dialect \in {f \in [Hosts -> {"olt"} \cup SwitchDialects] :
                       /\ f["olt1"] = "olt" /\ f["olt2"] = "olt"
                       /\ f["sw1"] \in SwitchDialects}
    /\ tasks \in {{"r1"}, Callers}
    /\ tasks = Callers => dialect["sw1"] = "cisco"
    /\ nreq = 0
    /\ connections = [h \in Hosts |-> 0]
    /\ current_loop_id = [m \in Managers |-> 0]
    /\ running_loop = 1
    /\ now = 0
    /\ nsess = 0
    /\ sess = [s \in Sids |-> NoClient]
    /\ call = [c \in Callers |-> IdleCall("none")]


\* ------------------------------------------------------------- the pool

\* The reuse test with its `not` dropped: `client.writer and
\* client.writer.is_closing()`.
WriterUsable_Negated(s) == sess[s].writer = "closing"

\* `client.writer and not client.writer.is_closing()`
WriterUsable(s) == sess[s].writer = "open"

\* _check_loop_change without its clear(): the map is left as it is.
check_loop_change_Kept(m) == connections

\* _check_loop_change: the pool map it leaves behind.  A recorded loop
\* identity that differs from the running loop's clears the manager's map.
check_loop_change(m) ==
    IF current_loop_id[m] # 0 /\ current_loop_id[m] # running_loop
    THEN [h \in Hosts |-> IF ManagerOf(h) = m THEN 0 ELSE connections[h]]
    ELSE connections

\* `if not self.reader or not self.writer: raise ConnectionError(...)`
Established(sr) == sr.reader # "none" /\ sr.writer # "none"

\* The session operations an endpoint calls one after the other:
\* cek_onu calls get_onu_detail and get_attenuation, switch_description
\* calls get_full_status.  Each operation sends one command.
NumOps(kind) == IF kind \in {"cek", "cek2"} THEN 2 ELSE 1

\* get_onu_detail and get_attenuation catch every exception of their command
\* and return an error text; get_full_status lets it propagate.
Swallows(kind) == kind \in {"cek", "cek2"}

\* The endpoint returns or raises: the handler task is free again.
Finish(cr, r) == IdleCall(r)

\* The endpoint from its operation k on, up to the next suspension point:
\* _execute_command checks the stream, writes the command and awaits drain.
RECURSIVE RunOps(_, _, _, _)
RunOps(cr, sr, k, err) ==
    IF k > NumOps(cr.kind)
    THEN Finish(cr, IF err THEN "errtext" ELSE "ok")
    ELSE IF Established(sr)
         THEN [cr EXCEPT !.pc = "cmd_drain", !.opi = k, !.opErr = err, !.ticked = FALSE]
         ELSE IF Swallows(cr.kind)
              THEN RunOps(cr, sr, k + 1, TRUE)
              ELSE Finish(cr, "500")

\* Operation cr.opi raised out of _execute_command.
OpRaised(cr, sr) ==
    IF Swallows(cr.kind)
    THEN RunOps(cr, sr, cr.opi + 1, TRUE)
    ELSE Finish(cr, "500")

HostOf(kind) ==
    CASE kind = "sw" -> "sw1"
      [] kind = "cek2" -> "olt2"
      [] OTHER -> "olt1"

\* get_connection, pool entry usable: the pooled client is returned and the
\* endpoint goes on to its first operation without suspending.
GetConnectionHit(c, kind) ==
    LET h == HostOf(kind)
        m == ManagerOf(h)
        pool == check_loop_change(m)
        cr == [call[c] EXCEPT !.kind = kind, !.host = h]
    IN  /\ c \in tasks
        /\ call[c].pc = "idle"
        /\ nreq < MaxReqs
        /\ nreq' = nreq + 1
        /\ pool[h] # 0
        /\ WriterUsable(pool[h])
        /\ connections' = pool
        /\ current_loop_id' = [current_loop_id EXCEPT ![m] = running_loop]
        /\ call' = [call EXCEPT ![c] =
                      RunOps([cr EXCEPT !.handler = pool[h], !.via = "hit"], sess[pool[h]], 1, FALSE)]
        /\ UNCHANGED <<sideVars, dialect, running_loop, now, tasks, nsess, sess>>

\* get_connection, no usable entry: a stale entry is deleted, a new client
\* object is made and connect() awaits telnetlib3.open_connection.
GetConnectionMiss(c, kind) ==
    LET h == HostOf(kind)
        m == ManagerOf(h)
        pool == check_loop_change(m)
        s == nsess + 1
    IN  /\ c \in tasks
        /\ call[c].pc = "idle"
        /\ nreq < MaxReqs
        /\ nreq' = nreq + 1
        /\ ~(pool[h] # 0 /\ WriterUsable(pool[h]))
        /\ nsess < MaxSessions
        /\ connections' = [pool EXCEPT ![h] = 0]
        /\ current_loop_id' = [current_loop_id EXCEPT ![m] = running_loop]
        /\ nsess' = s
        /\ sess' = [sess EXCEPT ![s] = NewClient(h)]
        /\ call' = [call EXCEPT ![c] =
                      [@ EXCEPT !.pc = "opening", !.kind = kind, !.host = h, !.client = s]]
        /\ UNCHANGED <<sideVars, dialect, running_loop, now, tasks>>

\* open_connection fails or its 20 s wait_for expires: connect() raises, the
\* endpoint answers 500, nothing is stored.
OpenFail(c) ==
    /\ call[c].pc = "opening"
    /\ call' = [call EXCEPT ![c] = Finish(@, "500")]
    /\ UNCHANGED <<sideVars, dialect, connections, current_loop_id, running_loop, now, tasks, nreq, nsess, sess>>

\* open_connection returns the stream; _login starts its first read.
OpenDone(c) ==
    LET s == call[c].client
    IN  /\ call[c].pc = "opening"
        /\ sess' = [sess EXCEPT ![s].writer = "open", ![s].reader = "open", ![s].logins = @ + 1]
        /\ call' = [call EXCEPT ![c].pc = "login", ![c].lstep = 1, ![c].ticked = FALSE]
        /\ UNCHANGED <<sideVars, dialect, connections, current_loop_id, running_loop, now, tasks, nreq, nsess>>


\* ------------------------------------------------------- connect and login

\* close(): writer.close(), then both handles are set to None.
Closed(sr) == [sr EXCEPT !.writer = "none", !.reader = "none"]

\* _login's two except clauses: close the stream, raise ConnectionError.  The
\* endpoint's `except Exception` answers 500; get_connection stores nothing.
LoginFails(c) ==
    /\ sess' = [sess EXCEPT ![call[c].client] = Closed(@)]
    /\ call' = [call EXCEPT ![c] = Finish(@, "500")]
    /\ UNCHANGED <<sideVars, dialect, connections, current_loop_id, running_loop, now, tasks, nreq, nsess>>

\* connect() returns to get_connection, which stores the client under its
\* host, spawns the keepalive task and returns the client; the endpoint goes
\* on to its first operation.  sr is the client as login left it.
ConnectReturns(c, sr) ==
    LET s == call[c].client
        ready == [sr EXCEPT !.last_activity = now,
                            !.ka = "sleep", !.kaWake = now + KeepaliveSleep]
    IN  /\ sess' = [sess EXCEPT ![s] = ready]
        /\ connections' = [connections EXCEPT ![sr.host] = s]
        /\ call' = [call EXCEPT ![c] =
                      RunOps([@ EXCEPT !.handler = s, !.via = "new", !.client = 0,
                                       !.lstep = 0, !.nAns = 0],
                             ready, 1, FALSE)]
        /\ UNCHANGED <<sideVars, dialect, current_loop_id, running_loop, now, tasks, nreq, nsess>>

\* _login returned.  TelnetClient.connect goes on to _disable_pagination
\* ("terminal length 0": write, then await drain); SwitchClient.connect is done.
LoginReturns(c, sr) ==
    IF sr.dialect = "olt"
    THEN /\ sess' = [sess EXCEPT ![call[c].client] = sr]
         /\ call' = [call EXCEPT ![c].pc = "dp_drain", ![c].ticked = FALSE]
         /\ UNCHANGED <<sideVars, dialect, connections, current_loop_id, running_loop, now, tasks, nreq, nsess>>
    ELSE ConnectReturns(c, sr)

\* The awaited text arrives: the answer is written (and drained), and login
\* moves to its next read; after the shell prompt login returns.
LoginMatch(c) ==
    LET s == call[c].client
        steps == LoginSteps(sess[s].dialect)
    IN  /\ call[c].pc = "login"
        /\ sess[s].peer = "up"
        /\ IF call[c].lstep < Len(steps)
           THEN /\ call' = [call EXCEPT ![c].lstep = @ + 1, ![c].ticked = FALSE]
                /\ UNCHANGED <<sideVars, dialect, connections, current_loop_id, running_loop,
                               now, tasks, nreq, nsess, sess>>
           ELSE LoginReturns(c, [sess[s] EXCEPT !.prompted = TRUE])

\* _login_huawei: "change now" and "y/n" in the data: 'n' is written and
\* drained, the data is reset and the loop reads on.
LoginChangeQuestion(c) ==
    LET s == call[c].client
        steps == LoginSteps(sess[s].dialect)
    IN  /\ call[c].pc = "login"
        /\ sess[s].peer = "up"
        /\ steps[call[c].lstep].reader = "hwloop"
        /\ call[c].nAns < MaxAnswers
        /\ call' = [call EXCEPT ![c].nAns = @ + 1, ![c].ticked = FALSE]
        /\ UNCHANGED <<sideVars, dialect, connections, current_loop_id, running_loop, now, tasks, nreq, nsess, sess>>

\* A login read's wait_for expires: asyncio.TimeoutError reaches _login.
LoginTimeout(c) ==
    /\ call[c].pc = "login"
    /\ sess[call[c].client].peer = "up"
    /\ LoginFails(c)

\* How a read-until ends when reader.read returns '' (EOF) before a match:
\* "raise" or "return".  readuntil raises IncompleteReadError; the three
\* hand-written readers leave their loop with `break` and return the data.
OnEof(reader) == IF reader = "readuntil" THEN "raise" ELSE "return"

\* The stream ends during a login read.
LoginEof(c) ==
    LET s == call[c].client
        steps == LoginSteps(sess[s].dialect)
    IN  /\ call[c].pc = "login"
        /\ sess[s].peer = "eof"
        /\ IF OnEof(steps[call[c].lstep].reader) = "raise"
           THEN LoginFails(c)
           ELSE IF call[c].lstep < Len(steps)
                THEN /\ call' = [call EXCEPT ![c].lstep = @ + 1, ![c].ticked = FALSE]
                     /\ UNCHANGED <<sideVars, dialect, connections, current_loop_id, running_loop,
                                    now, tasks, nreq, nsess, sess>>
                ELSE LoginReturns(c, sess[s])

\* After a read that returned at EOF the answer is written to the closed
\* stream; the drain that follows may raise (ConnectionResetError).
LoginEofDrainRaises(c) ==
    LET s == call[c].client
        steps == LoginSteps(sess[s].dialect)
    IN  /\ call[c].pc = "login"
        /\ sess[s].peer = "eof"
        /\ OnEof(steps[call[c].lstep].reader) = "return"
        /\ steps[call[c].lstep].drain
        /\ LoginFails(c)

\* _disable_pagination's drain returns: _read_until_prompt starts.
DpDrained(c) ==
    /\ call[c].pc = "dp_drain"
    /\ call' = [call EXCEPT ![c].pc = "dp_read"]
    /\ UNCHANGED <<sideVars, dialect, connections, current_loop_id, running_loop, now, tasks, nreq, nsess, sess>>

\* _disable_pagination raises (drain: connection lost or its 10 s wait_for
\* expired; read: its 20 s wait_for expired).  The exception leaves connect()
\* outside _login's try: the stream is not closed, nothing is stored.
DpRaises(c) ==
    /\ call[c].pc \in {"dp_drain", "dp_read"}
    /\ call[c].pc = "dp_read" => sess[call[c].client].peer = "up"
    /\ call' = [call EXCEPT ![c] = Finish(@, "500")]
    /\ UNCHANGED <<sideVars, dialect, connections, current_loop_id, running_loop, now, tasks, nreq, nsess, sess>>

\* generate_batch_config makes its own TelnetClient, outside the pool, and
\* awaits client.connect().
BatchStart(c) ==
    LET s == nsess + 1
    IN  /\ c \in tasks
        /\ call[c].pc = "idle"
        /\ nreq < MaxReqs
        /\ nreq' = nreq + 1
        /\ nsess < MaxSessions
        /\ nsess' = s
        /\ sess' = [sess EXCEPT ![s] = NewClient("olt1")]
        /\ call' = [call EXCEPT ![c] =
                      [@ EXCEPT !.pc = "opening", !.kind = "batch", !.host = "olt1", !.client = s]]
        /\ UNCHANGED <<sideVars, dialect, connections, current_loop_id, running_loop, now, tasks>>

\* generate_batch_config after `await client.connect()` (which has logged in
\* and disabled pagination): `await client._login()` starts the login
\* sequence on the same stream, waiting for 'Username:'.
BatchConnected(c) ==
    LET s == call[c].client
    IN  /\ sess' = [sess EXCEPT ![s].last_activity = now, ![s].logins = @ + 1]
        /\ call' = [call EXCEPT ![c].pc = "login", ![c].lstep = 1, ![c].via = "new",
                                 ![c].ticked = FALSE]
        /\ UNCHANGED <<sideVars, dialect, connections, current_loop_id, running_loop, now, tasks, nreq, nsess>>

\* generate_batch_config after its own _login() and _disable_pagination()
\* returned: the generator runs, then `await client.close()`.
BatchDone(c) ==
    /\ sess' = [sess EXCEPT ![call[c].client] = Closed(@)]
    /\ call' = [call EXCEPT ![c] = Finish(@, "ok")]
    /\ UNCHANGED <<sideVars, dialect, connections, current_loop_id, running_loop, now, tasks, nreq, nsess>>

\* _disable_pagination's read returns: at the prompt, or with '' at EOF.
\* connect() returns to its caller: get_connection, or generate_batch_config.
DpRead(c) ==
    /\ call[c].pc = "dp_read"
    /\ IF call[c].kind = "batch"
       THEN IF call[c].via = "none" THEN BatchConnected(c) ELSE BatchDone(c)
       ELSE ConnectReturns(c, sess[call[c].client])


\* ----------------------------------------------------- command execution

\* _execute_command: `await asyncio.wait_for(self.writer.drain(), timeout=10)`
\* returns; _read_until_prompt starts reading.
CmdDrained(c) ==
    /\ call[c].pc = "cmd_drain"
    /\ call' = [call EXCEPT ![c].pc = "cmd_read"]
    /\ UNCHANGED <<sideVars, dialect, connections, current_loop_id, running_loop, now, tasks, nreq, nsess, sess>>

\* The drain raises: the connection is lost (the writer is closing), or the
\* device takes no data and the 10 s wait_for expires (the writer stays open).
\* Nothing in _execute_command, the operation or the endpoint closes the
\* stream or touches the pool.
CmdDrainRaises(c) ==
    LET s == call[c].handler
        sr == [sess[s] EXCEPT !.writeFailed = TRUE]
    IN  /\ call[c].pc = "cmd_drain"
        /\ sess' = [sess EXCEPT ![s] = sr]
        /\ call' = [call EXCEPT ![c] = OpRaised(@, sr)]
        /\ UNCHANGED <<sideVars, dialect, connections, current_loop_id, running_loop, now, tasks, nreq, nsess>>

\* reader.read returns data in which the awaited text is not found yet: the
\* hand-written readers loop and start a new wait_for.  (readuntil runs under
\* one wait_for for the whole search.)
ReadChunk(c) ==
    /\ call[c].pc \in {"login", "dp_read", "cmd_read"}
    /\ call[c].pc = "login" =>
          LoginSteps(sess[call[c].client].dialect)[call[c].lstep].reader # "readuntil"
    /\ sess[IF call[c].pc = "cmd_read" THEN call[c].handler ELSE call[c].client].peer = "up"
    /\ call[c].ticked
    /\ call' = [call EXCEPT ![c].ticked = FALSE]
    /\ UNCHANGED <<sideVars, dialect, connections, current_loop_id, running_loop, now, tasks, nreq, nsess, sess>>

\* _read_until_prompt returns: the prompt was read, or reader.read returned
\* '' and the loop was left with `break`.  The output is cleaned, the
\* operation returns it and the endpoint goes on.
CmdRead(c) ==
    LET s == call[c].handler
    IN  /\ call[c].pc = "cmd_read"
        /\ call' = [call EXCEPT ![c] = RunOps(@, sess[s], @.opi + 1, @.opErr)]
        /\ UNCHANGED <<sideVars, dialect, connections, current_loop_id, running_loop, now, tasks, nreq, nsess, sess>>

\* The read's wait_for expires: _read_until_prompt re-raises TimeoutError.
CmdReadTimeout(c) ==
    LET s == call[c].handler
        sr == [sess[s] EXCEPT !.timedOut = TRUE]
    IN  /\ call[c].pc = "cmd_read"
        /\ sess[s].peer = "up"
        /\ sess' = [sess EXCEPT ![s] = sr]
        /\ call' = [call EXCEPT ![c] = OpRaised(@, sr)]
        /\ UNCHANGED <<sideVars, dialect, connections, current_loop_id, running_loop, now, tasks, nreq, nsess>>

\* ---------------------------------------------------------- the keepalive

\* `now - client.last_activity > 50`
IdleLongEnough(sr) == now - sr.last_activity > IdleThreshold

\* `if client.lock.locked(): continue`
LockBusy(sr) == sr.lock

\* _keepalive_worker after asyncio.sleep(60): leave the loop when the writer
\* is gone; when idle long enough and the lock is free, take the lock, write
\* "\n" and await drain; otherwise sleep again.
KeepaliveWake(s) ==
    /\ s <= nsess
    /\ sess[s].ka = "sleep"
    /\ now >= sess[s].kaWake
    /\ sess' = [sess EXCEPT ![s] =
                  IF ~WriterUsable(s)
                  THEN [@ EXCEPT !.ka = "done"]
                  ELSE IF IdleLongEnough(@) /\ ~LockBusy(@)
                       THEN [@ EXCEPT !.ka = "drain", !.lock = TRUE]
                       ELSE [@ EXCEPT !.kaWake = now + KeepaliveSleep]]
    /\ UNCHANGED <<sideVars, dialect, connections, current_loop_id, running_loop, now, tasks, nreq, nsess, call>>

\* The keepalive's drain returns: last_activity is set, the lock released.
KeepaliveDrained(s) ==
    /\ s <= nsess
    /\ sess[s].ka = "drain"
    /\ sess' = [sess EXCEPT ![s] =
                  [@ EXCEPT !.last_activity = now, !.lock = FALSE,
                            !.ka = "sleep", !.kaWake = now + KeepaliveSleep]]
    /\ UNCHANGED <<sideVars, dialect, connections, current_loop_id, running_loop, now, tasks, nreq, nsess, call>>

\* The keepalive's drain raises and the worker sleeps for its next round.
KeepaliveDrainRaises_Continues(s) ==
    /\ s <= nsess
    /\ sess[s].ka = "drain"
    /\ sess[s].writer = "closing"
    /\ sess' = [sess EXCEPT ![s] = [@ EXCEPT !.lock = FALSE, !.ka = "sleep",
                                             !.kaWake = now + KeepaliveSleep]]
    /\ UNCHANGED <<sideVars, dialect, connections, current_loop_id, running_loop, now, tasks, nreq, nsess, call>>

\* The keepalive's drain raises: the worker logs and leaves its loop.
KeepaliveDrainRaises(s) ==
    /\ s <= nsess
    /\ sess[s].ka = "drain"
    /\ sess[s].writer = "closing"
    /\ sess' = [sess EXCEPT ![s] = [@ EXCEPT !.lock = FALSE, !.ka = "done"]]
    /\ UNCHANGED <<sideVars, dialect, connections, current_loop_id, running_loop, now, tasks, nreq, nsess, call>>

\* --------------------------------------------------------- detect_uncfg_onts

\* detect_uncfg_onts calls get_connection(..., olt_name=...), a keyword
\* get_connection does not take: the call raises TypeError before its body
\* runs.  `except Exception` deletes the host's pool entry.

\* The except branch with `olt_manager._connections.clear()` in place of the
\* del.
DetectEvict_All == [h \in Hosts |-> 0]

\* `if olt_info["ip"] in olt_manager._connections: del
\* olt_manager._connections[olt_info["ip"]]`
DetectEvict == [connections EXCEPT !["olt1"] = 0]

\* Attempt 0: evict, then asyncio.sleep(1) before the retry.
DetectStart(c) ==
    /\ c \in tasks
    /\ call[c].pc = "idle"
    /\ nreq < MaxReqs
    /\ nreq' = nreq + 1
    /\ connections' = DetectEvict
    /\ call' = [call EXCEPT ![c] =
                  IF 0 < max_retries - 1
                  THEN [@ EXCEPT !.pc = "retry_sleep", !.kind = "detect", !.attempt = 1]
                  ELSE Finish(@, "504")]
    /\ UNCHANGED <<sideVars, dialect, current_loop_id, running_loop, now, tasks, nsess, sess>>

\* The next attempt; after the last one HTTPException(504) is raised.
DetectRetry(c) ==
    /\ call[c].pc = "retry_sleep"
    /\ connections' = DetectEvict
    /\ call' = [call EXCEPT ![c] =
                  IF call[c].attempt < max_retries - 1
                  THEN [@ EXCEPT !.attempt = @ + 1, !.ticked = FALSE]
                  ELSE Finish(@, "504")]
    /\ UNCHANGED <<sideVars, dialect, current_loop_id, running_loop, now, tasks, nreq, nsess, sess>>

\* -------------------------------------------------------- the environment

\* The device closes the connection: the reader is fed EOF and the
\* transport closes, so the writer reports is_closing().
PeerClose(s) ==
    /\ s <= nsess
    /\ sess[s].writer = "open"
    /\ sess[s].peer = "up"
    /\ sess' = [sess EXCEPT ![s] = [@ EXCEPT !.peer = "eof", !.writer = "closing"]]
    /\ UNCHANGED <<sideVars, dialect, connections, current_loop_id, running_loop, now, tasks, nreq, nsess, call>>

\* The clock passes a multiple of 30 s.  A keepalive whose sleep is over runs
\* before more time passes.  Every wait of a handler task is bounded by less
\* than 30 s (wait_for of 20 s, asyncio.sleep(1); a command's drain and the
\* read after it: 10 s and 20 s), so no wait spans two such moments.
Tick ==
    /\ now < MaxTime
    /\ \A s \in 1..nsess : sess[s].ka = "sleep" => sess[s].kaWake > now
    /\ \A c \in Callers : ~call[c].ticked
    /\ now' = now + 1
    /\ call' = [c \in Callers |->
                  IF call[c].pc = "idle" THEN call[c] ELSE [call[c] EXCEPT !.ticked = TRUE]]
    /\ UNCHANGED <<sideVars, dialect, connections, current_loop_id, running_loop, tasks, nreq, nsess, sess>>

\* The process goes on under a new event loop (what _check_loop_change
\* looks for).  The tasks of the old loop never run again; the client
\* objects and their sockets stay as they are.
LoopChange ==
    /\ running_loop < MaxLoops
    /\ \A c \in Callers : call[c].pc = "idle"
    /\ running_loop' = running_loop + 1
    /\ sess' = [s \in Sids |->
                  IF sess[s].ka \in {"sleep", "drain"}
                  THEN [sess[s] EXCEPT !.ka = "stopped"]
                  ELSE sess[s]]
    /\ UNCHANGED <<sideVars, dialect, connections, current_loop_id, now, tasks, nreq, nsess, call>>

Next ==
    \/ \E c \in Callers : \E kind \in {"cek", "sw"} : GetConnectionHit(c, kind)
    \/ \E c \in Callers : \E kind \in {"cek", "sw"} : GetConnectionMiss(c, kind)
    \/ \E c \in Callers : OpenFail(c)
    \/ \E c \in Callers : OpenDone(c)
    \/ \E c \in Callers : LoginMatch(c)
    \/ \E c \in Callers : LoginChangeQuestion(c)
    \/ \E c \in Callers : LoginTimeout(c)
    \/ \E c \in Callers : LoginEof(c)
    \/ \E c \in Callers : LoginEofDrainRaises(c)
    \/ \E c \in Callers : DpDrained(c)
    \/ \E c \in Callers : DpRaises(c)
    \/ \E c \in Callers : DpRead(c)
    \/ \E c \in Callers : ReadChunk(c)
    \/ \E c \in Callers : CmdDrained(c)
    \/ \E c \in Callers : CmdDrainRaises(c)
    \/ \E c \in Callers : CmdRead(c)
    \/ \E c \in Callers : CmdReadTimeout(c)
    \/ \E c \in Callers : DetectStart(c)
    \/ \E c \in Callers : DetectRetry(c)
    \/ \E s \in Sids : KeepaliveWake(s)
    \/ \E s \in Sids : KeepaliveDrained(s)
    \/ \E s \in Sids : KeepaliveDrainRaises(s)
    \/ \E s \in Sids : PeerClose(s)
    \/ Tick
    \/ LoopChange

Spec == Init /\ [][Next]_vars

\* ------------------------------------------- _read_until_prompt, chunk by chunk

\* Device text is a sequence of pieces: "a" is ordinary text, "#" is text
\* that ends in the shell prompt (self._prompt_re matches data ending with
\* it), and "m1" "m2" are the two halves of the pagination marker.
Symbols == {"a", "#", "m1", "m2"}

\* self._pagination_prompt = "--More--"
Marker == <<"m1", "m2">>

\* `re.search(self._prompt_re, data)`
PromptAtEnd(data) == Len(data) > 0 /\ data[Len(data)] = "#"

\* `self._pagination_prompt in data`
Contains(data, m) ==
    \E i \in 1..(Len(data) - Len(m) + 1) : SubSeq(data, i, i + Len(m) - 1) = m

\* `data.replace(self._pagination_prompt, "")`: one pass, left to right.
RECURSIVE Replace(_)
Replace(data) ==
    IF Len(data) < Len(Marker) THEN data
    ELSE IF SubSeq(data, 1, Len(Marker)) = Marker
         THEN Replace(SubSeq(data, Len(Marker) + 1, Len(data)))
         ELSE <<Head(data)>> \o Replace(Tail(data))

\* What the device sends during the call: the chunks reader.read returns.
ChunkSet == UNION {[1..k -> Symbols] : k \in 1..MaxChunkLen}
Outputs == UNION {[1..k -> ChunkSet] : k \in 1..MaxChunks}

\* The whole text of an output.
RECURSIVE Flatten(_)
Flatten(chunks) == IF chunks = <<>> THEN <<>> ELSE Head(chunks) \o Flatten(Tail(chunks))

\* Everything but the handler tasks' world at rest.
Quiet ==
    /\ dialect = [h \in Hosts |-> IF h = "sw1" THEN "cisco" ELSE "olt"]
    /\ tasks = {"r1"}
    /\ nreq = 0
    /\ connections = [h \in Hosts |-> 0]
    /\ current_loop_id = [m \in Managers |-> 0]
    /\ running_loop = 1
    /\ now = 0
    /\ nsess = 0
    /\ sess = [s \in Sids |-> NoClient]
    /\ call = [c \in Callers |-> IdleCall("none")]

sessionVars == <<dialect, connections, current_loop_id, running_loop, now, tasks, nreq, nsess, sess, call>>

\* A _read_until_prompt call has just begun: data = "".  After its chunks
\* the device either closes the connection (eof) or stays silent.
InitReader ==
    /\ Quiet
    /\ lg = NoLogin
    /\ ms = NoRun
    /\ NoLooks
    /\ rd \in {[NoRead EXCEPT !.pc = "reading", !.chunks = o, !.eof = e] :
                  o \in Outputs, e \in BOOLEAN}

\* reader.read returns the next chunk: it is appended; the prompt test comes
\* first and ends the call; otherwise a marker in the data is answered with
\* a space and removed.  The next read starts a new wait_for.
RdChunk ==
    LET data == rd.data \o rd.chunks[rd.pos + 1]
    IN  /\ rd.pc = "reading"
        /\ rd.pos < Len(rd.chunks)
        /\ rd.waited < ReadTimeout
        /\ rd' = IF PromptAtEnd(data)
                 THEN [rd EXCEPT !.pc = "returned", !.pos = @ + 1, !.data = data]
                 ELSE IF Contains(data, Marker)
                      THEN [rd EXCEPT !.pos = @ + 1, !.data = Replace(data),
                                      !.spaces = @ + 1, !.waited = 0]
                      ELSE [rd EXCEPT !.pos = @ + 1, !.data = data, !.waited = 0]
        /\ UNCHANGED <<sessionVars, lg, ms, pf, st, pv, al, tg>>

\* reader.read returns '': `if not chunk: break`, the data is returned.
RdEof ==
    /\ rd.pc = "reading"
    /\ rd.pos = Len(rd.chunks)
    /\ rd.eof
    /\ rd' = [rd EXCEPT !.pc = "returned"]
    /\ UNCHANGED <<sessionVars, lg, ms, pf, st, pv, al, tg>>

\* 10 s pass while reader.read is awaited.
RdTick ==
    /\ rd.pc = "reading"
    /\ rd.waited < ReadTimeout
    /\ rd' = [rd EXCEPT !.elapsed = @ + 1, !.waited = @ + 1]
    /\ UNCHANGED <<sessionVars, lg, ms, pf, st, pv, al, tg>>

\* wait_for(reader.read(1024), timeout) expires: TimeoutError is re-raised.
RdTimeout ==
    /\ rd.pc = "reading"
    /\ rd.waited = ReadTimeout
    /\ rd' = [rd EXCEPT !.pc = "timeout"]
    /\ UNCHANGED <<sessionVars, lg, ms, pf, st, pv, al, tg>>

NextReader == RdChunk \/ RdEof \/ RdTick \/ RdTimeout

SpecReader == InitReader /\ [][NextReader]_vars

\* ----------------------------------------------------- login, 10 s clock

\* _login against a device that sends its dialect's prompts in sequence
\* (whole, or in chunks), each after any delay.  lg.waits counts the
\* wait_for calls started, lg.reads the chunks received, lg.elapsed the time
\* since _login began, lg.waited the time the running wait_for has lasted.
\* (_login_ruijie's asyncio.sleep(1) is far below the clock's unit.)
InitLogin ==
    /\ Quiet
    /\ rd = NoRead
    /\ ms = NoRun
    /\ NoLooks
    /\ lg \in {[NoLogin EXCEPT !.pc = "read", !.dialect = d, !.lstep = 1, !.waits = 1] :
                  d \in {"olt"} \cup SwitchDialects}

\* A wait_for's timeout is reached.
WaitExpired_Early(w) == w = login_timeout - 1

\* A wait_for's timeout is reached.
WaitExpired(w) == w = login_timeout

\* The awaited text is complete in the data: the answer is written and the
\* next read begins under its own wait_for; after the shell prompt login
\* returns.
LgPrompt ==
    LET steps == LoginSteps(lg.dialect)
    IN  /\ lg.pc = "read"
        /\ lg.peer = "up"
        /\ lg.asked = <<>>
        /\ ~WaitExpired(lg.waited)
        /\ lg' = IF lg.lstep < Len(steps)
                 THEN [lg EXCEPT !.reads = @ + 1, !.lstep = @ + 1, !.waited = 0, !.waits = @ + 1,
                                 !.writes = Append(@, <<steps[lg.lstep].send, TRUE>>)]
                 ELSE [lg EXCEPT !.reads = @ + 1, !.pc = "ready", !.prompted = TRUE]
        /\ UNCHANGED <<sessionVars, rd, ms, pf, st, pv, al, tg>>

\* A chunk arrives in which the awaited text is not complete yet.  The
\* hand-written readers loop and start a new wait_for; readuntil goes on
\* under the wait_for it was called in.
LgPartial ==
    LET steps == LoginSteps(lg.dialect)
    IN  /\ lg.pc = "read"
        /\ lg.peer = "up"
        /\ lg.asked = <<>>
        /\ ~WaitExpired(lg.waited)
        /\ lg.splits < MaxSplits
        /\ lg' = IF steps[lg.lstep].reader = "readuntil"
                 THEN [lg EXCEPT !.reads = @ + 1, !.splits = @ + 1]
                 ELSE [lg EXCEPT !.reads = @ + 1, !.splits = @ + 1, !.waited = 0, !.waits = @ + 1]
        /\ UNCHANGED <<sessionVars, rd, ms, pf, st, pv, al, tg>>

\* _login_huawei: the device asks "change now? y/n"; 'n' is written and the
\* loop reads on.
LgQuestion ==
    LET steps == LoginSteps(lg.dialect)
    IN  /\ lg.pc = "read"
        /\ ~WaitExpired(lg.waited)
        /\ steps[lg.lstep].reader = "hwloop"
        /\ lg.nAns < MaxAnswers
        /\ lg' = [lg EXCEPT !.reads = @ + 1, !.nAns = @ + 1, !.waited = 0, !.waits = @ + 1,
                            !.writes = Append(@, <<"n", TRUE>>)]
        /\ UNCHANGED <<sessionVars, rd, ms, pf, st, pv, al, tg>>

\* 10 s pass while login waits for data.
LgTick ==
    /\ lg.pc = "read"
    /\ ~WaitExpired(lg.waited)
    /\ lg' = [lg EXCEPT !.elapsed = @ + 1, !.waited = @ + 1]
    /\ UNCHANGED <<sessionVars, rd, ms, pf, st, pv, al, tg>>

\* The wait_for expires: `except asyncio.TimeoutError` in _login closes the
\* stream and raises ConnectionError.
LgTimeout ==
    /\ lg.pc = "read"
    /\ WaitExpired(lg.waited)
    /\ lg' = [lg EXCEPT !.pc = "failed"]
    /\ UNCHANGED <<sessionVars, rd, ms, pf, st, pv, al, tg>>

NextLogin == LgPrompt \/ LgPartial \/ LgQuestion \/ LgTick \/ LgTimeout

\* The device goes on sending and time goes on passing.
SpecLogin == InitLogin /\ [][NextLogin]_vars /\ WF_vars(NextLogin)

\* --------------------------------------- multi-step operations, one command
\* --------------------------------------- at a time

\* One run of a command list on an established session:
\*   kind "send":  the loop of send_no_onu and its like (for cmd in commands:
\*                 await self._execute_command(cmd)), every exception caught
\*                 and returned as a text;
\*   kind "apply": step 7 of apply_configuration.
\* Commands are named by their place in the list.
\*   idx:      the loop's command;  step: current_step (the command it names)
\*   written:  the commands passed to writer.write, in order
\*   prompts:  the commands whose read ended with the prompt read
\*   logs:     apply_configuration's logs
\*   failedAt: the command at which an exception left the loop, 0 if none
\*   report:   the step the failure report names, 0 if there is none

\* `logs.append(f"CMD > {cmd}")` left out.
CmdLogged_Skipped(m, i) == m.logs

\* `logs.append(f"CMD > {cmd}")`
CmdLogged(m, i) == Append(m.logs, <<"CMD", i>>)

\* The loop comes to command i: apply_configuration names it in current_step
\* and logs it; _execute_command writes it and awaits the drain.  Past the
\* last command the operation returns its success.
MsIssue(m, i) ==
    IF i > m.n
    THEN [m EXCEPT !.pc = "done", !.status = "success",
                   !.logs = IF m.kind = "apply" THEN Append(@, <<"STEP", 0>>) ELSE @]
    ELSE [m EXCEPT !.pc = "drain", !.idx = i,
                   !.step = IF m.kind = "apply" THEN i ELSE @,
                   !.logs = IF m.kind = "apply" THEN CmdLogged(m, i) ELSE @,
                   !.written = Append(@, i)]

\* An exception leaves the loop.  apply_configuration logs the error and
\* returns a report with `Step : {current_step}`; the send operations
\* return "... failed: {e}".
MsFail(m) ==
    [m EXCEPT !.pc = "done", !.status = "error", !.failedAt = m.idx,
              !.logs = IF m.kind = "apply" THEN Append(@, <<"ERROR", m.idx>>) ELSE @,
              !.report = IF m.kind = "apply" THEN m.step ELSE 0]

InitSteps ==
    /\ Quiet
    /\ rd = NoRead
    /\ lg = NoLogin
    /\ NoLooks
    /\ ms \in {MsIssue([NoRun EXCEPT !.kind = k, !.n = n], 1) :
                  k \in {"send", "apply"}, n \in 1..MaxCmds}

\* The drain returns: the prompt read begins.
MsDrained ==
    /\ ms.pc = "drain"
    /\ ms' = [ms EXCEPT !.pc = "read"]
    /\ UNCHANGED <<sessionVars, rd, lg, pf, st, pv, al, tg>>

\* The drain raises or its 10 s wait_for expires.
MsDrainRaises ==
    /\ ms.pc = "drain"
    /\ ms' = MsFail(ms)
    /\ UNCHANGED <<sessionVars, rd, lg, pf, st, pv, al, tg>>

\* `"error" in output.lower() or "invalid" in output.lower() or "failed" in
\* output.lower()` never true.
HoldsErrorWord_Never(out) == FALSE

\* `"error" in output.lower() or "invalid" in output.lower() or "failed" in
\* output.lower()`
HoldsErrorWord(out) == out = "errword"

\* The prompt is read.  out is the cleaned output: "empty", "clean", or
\* "errword" (it holds "error", "invalid" or "failed").  apply_configuration
\* logs a non-empty output and raises RuntimeError on an error word; then
\* the loop goes on.
MsPrompt(out) ==
    LET read == [ms EXCEPT !.prompts = @ \cup {ms.idx},
                           !.errAt = IF out = "errword" /\ @ = 0 THEN ms.idx ELSE @,
                           !.logs = IF ms.kind = "apply" /\ out # "empty"
                                    THEN Append(@, <<"LOG", ms.idx>>) ELSE @]
    IN  /\ ms.pc = "read"
        /\ ms.peer = "up"
        /\ ms' = IF ms.kind = "apply" /\ HoldsErrorWord(out)
                 THEN MsFail(read)
                 ELSE MsIssue(read, ms.idx + 1)
        /\ UNCHANGED <<sessionVars, rd, lg, pf, st, pv, al, tg>>

\* The read's wait_for expires.
MsReadTimeout ==
    /\ ms.pc = "read"
    /\ ms.peer = "up"
    /\ ms' = MsFail(ms)
    /\ UNCHANGED <<sessionVars, rd, lg, pf, st, pv, al, tg>>

\* reader.read returns '': _read_until_prompt returns "", _execute_command
\* returns "" and the loop goes on to the next command.
MsEof ==
    /\ ms.pc = "read"
    /\ ms.peer = "eof"
    /\ ms' = MsIssue(ms, ms.idx + 1)
    /\ UNCHANGED <<sessionVars, rd, lg, pf, st, pv, al, tg>>

\* The device closes the connection.
MsPeerClose ==
    /\ ms.pc \in {"drain", "read"}
    /\ ms.peer = "up"
    /\ ms' = [ms EXCEPT !.peer = "eof"]
    /\ UNCHANGED <<sessionVars, rd, lg, pf, st, pv, al, tg>>

NextSteps ==
    \/ MsDrained
    \/ MsDrainRaises
    \/ \E out \in {"empty", "clean", "errword"} : MsPrompt(out)
    \/ MsReadTimeout
    \/ MsEof
    \/ MsPeerClose

SpecSteps == InitSteps /\ [][NextSteps]_vars

\* ---------------------------------------------- output cleaning and parsers

\* A text is a sequence of characters: "x" a printing character, " " a
\* space, "nl" a line break.

\* The place of the first line break of t, 0 if it has none.
FirstBreak(t) ==
    IF \E i \in 1..Len(t) : t[i] = "nl"
    THEN CHOOSE i \in 1..Len(t) : t[i] = "nl" /\ \A j \in 1..(i - 1) : t[j] # "nl"
    ELSE 0

\* str.splitlines(): the lines without their breaks; a break at the very
\* end opens no further line.
RECURSIVE splitlines(_)
splitlines(t) ==
    IF t = <<>> THEN <<>>
    ELSE IF FirstBreak(t) = 0 THEN <<t>>
         ELSE <<SubSeq(t, 1, FirstBreak(t) - 1)>>
              \o splitlines(SubSeq(t, FirstBreak(t) + 1, Len(t)))

\* str.strip(): leading and trailing spaces removed.
RECURSIVE strip(_)
strip(l) ==
    IF l = <<>> THEN <<>>
    ELSE IF Head(l) = " " THEN strip(Tail(l))
    ELSE IF l[Len(l)] = " " THEN strip(SubSeq(l, 1, Len(l) - 1))
    ELSE l

\* `lines[1:]`: the slice with the last line kept.
MiddleLines_KeepLast(lines) == SubSeq(lines, 2, Len(lines))

\* `lines[1:-1]`
MiddleLines(lines) == SubSeq(lines, 2, Len(lines) - 1)

\* The loop `for line in ...: stripped = line.strip(); if stripped:
\* cleaned_lines.append(stripped)`, from the lines still to visit.
RECURSIVE CleanedLines(_)
CleanedLines(rest) ==
    IF rest = <<>> THEN <<>>
    ELSE IF strip(Head(rest)) # <<>>
         THEN <<strip(Head(rest))>> \o CleanedLines(Tail(rest))
         ELSE CleanedLines(Tail(rest))

\* "\n".join(lines)
RECURSIVE join(_)
join(lines) ==
    IF lines = <<>> THEN <<>>
    ELSE IF Len(lines) = 1 THEN Head(lines)
    ELSE Head(lines) \o <<"nl">> \o join(Tail(lines))

\* The cleaning at the end of _execute_command.
CleanOutput(raw) ==
    LET lines == splitlines(raw)
    IN  IF Len(lines) > 2 THEN join(CleanedLines(MiddleLines(lines))) ELSE join(<<>>)

\* The texts of at most n characters.
RECURSIVE Texts(_)
Texts(n) ==
    IF n = 0 THEN {<<>>}
    ELSE Texts(n - 1) \cup {Append(t, ch) : t \in {u \in Texts(n - 1) : Len(u) = n - 1},
                                            ch \in {"x", " ", "nl"}}

\* The ONU state tables: active_onus as parsed, in row order.  Ports filled
\* up to k with at most one gap, and short tables in any order, with
\* repeated rows.
RECURSIVE Tables(_)
Tables(n) ==
    IF n = 0 THEN {<<>>}
    ELSE Tables(n - 1) \cup {Append(t, i) : t \in {u \in Tables(n - 1) : Len(u) = n - 1},
                                             i \in 1..3}

\* The table of ports 1..k without port gap (no row is missing when gap is 0).
Filled(k, gap) ==
    LET ids == [i \in 1..k |-> i]
    IN  SelectSeq(ids, LAMBDA i : i # gap)

\* `active_onus.sort()`
Sorted(l) == SortSeq(l, LAMBDA a, b : a < b)

\* The scan `calculation = 1; for onu_id in active_onus: if onu_id !=
\* calculation: break; calculation += 1`: calculation when the loop ends, at
\* the first row that differs from its place or past the last row.
Scan(rows) ==
    CHOOSE calculation \in 1..(Len(rows) + 1) :
        /\ \A i \in 1..(calculation - 1) : rows[i] = i
        /\ calculation <= Len(rows) => rows[calculation] # calculation

\* find_next_available_onu_id from active_onus on.
NextOnuId(active_onus) ==
    IF active_onus = <<>> THEN [out |-> 1, exc |-> "none"]
    ELSE IF Scan(Sorted(active_onus)) > PortLimit
         THEN [out |-> 0, exc |-> "ValueError"]
         ELSE [out |-> Scan(Sorted(active_onus)), exc |-> "none"]

\* The output of `show pon bandwidth dba interface X` is looked at as one
\* line of words separated by blanks:
\*   "iface"  the interface asked for (gpon-olt_1/3/3)
\*   "gpon"   a channel (1(GPON))
\*   "int"    digits only (683760)
\*   "dec"    a decimal number (55.0)
\*   "dots"   digits and dots that are no number (1.2.3, or a lone .)
\*   "word"   any other word (down)
\*   "word."  a word that ends a sentence (exist.)
Words == {"iface", "gpon", "int", "dec", "dots", "word", "word."}

RECURSIVE Lines(_)
Lines(n) ==
    IF n = 0 THEN {<<>>}
    ELSE Lines(n - 1) \cup {Append(t, w) : t \in {u \in Lines(n - 1) : Len(u) = n - 1},
                                            w \in Words}

\* What `[\d.]+` matches at the beginning of a word: a number, digits and
\* dots that are no number ("bad"), or nothing.
LeadRun(w) ==
    CASE w \in {"int", "dec", "gpon"} -> "num"
      [] w = "dots" -> "bad"
      [] OTHER -> "none"

\* What `([\d.]+)\s*$` matches at the end of a word.
TrailRun(w) ==
    CASE w \in {"int", "dec", "iface"} -> "num"
      [] w \in {"dots", "word."} -> "bad"
      [] OTHER -> "none"

\* rate_regex.search: the place of the word the group is taken from, for
\* the leftmost match of interface, channel, two integers and a run; 0 when
\* there is no match.
StrictMatch(line) ==
    LET at(p) == /\ line[p] = "iface" /\ line[p + 1] = "gpon"
                 /\ line[p + 2] = "int" /\ line[p + 3] = "int"
                 /\ LeadRun(line[p + 4]) # "none"
    IN  IF \E p \in 1..(Len(line) - 4) : at(p)
        THEN 4 + CHOOSE p \in 1..(Len(line) - 4) : at(p) /\ \A q \in 1..(p - 1) : ~at(q)
        ELSE 0

\* fallback_regex.search: the interface, blanks, and a run at the end of the
\* line; the place of the last word, 0 when there is no match.
FallbackMatch(line) ==
    IF /\ \E p \in 1..(Len(line) - 1) : line[p] = "iface"
       /\ TrailRun(line[Len(line)]) # "none"
    THEN Len(line)
    ELSE 0

\* `return float(rate_str)`: the rate read at word `place`, or ValueError.
float(run, place) ==
    IF run = "num" THEN [out |-> place, exc |-> "none"]
    ELSE [out |-> 0, exc |-> "ValueError"]

\* get_dba_rate from the output on.  out is the place of the word whose
\* number is returned, 0 for the default 0.0.
DbaRate(line) ==
    IF StrictMatch(line) # 0
    THEN float(LeadRun(line[StrictMatch(line)]), StrictMatch(line))
    ELSE IF FallbackMatch(line) # 0
         THEN float(TrailRun(line[FallbackMatch(line)]), FallbackMatch(line))
         ELSE [out |-> 0, exc |-> "none"]

\* A row of `show gpon onu uncfg` is a sequence of characters:
\*   "g" the letters before the index (gpon-onu_), "1" and "5" digits, "/",
\*   ":", " " a blank, "W" eight blanks in a row, "S" the text of a serial
\*   number, "u" the family marker ('unknown' on c300, 'GPON' on c600),
\*   "x" a character that belongs to none of these.
Digits == {"1", "5"}

\* The index columns of the rows looked at: well formed with a port below 10,
\* a port of 10 or more, a slot of 10 or more; cut short; with a port that
\* is no number; missing.
IndexColumns ==
    { <<"g", "1", "/", "5", "/", "5", ":", "1">>,
      <<"g", "1", "/", "5", "/", "1", "5", ":", "1">>,
      <<"g", "1", "/", "1", "5", "/", "5", ":", "1">>,
      <<"g", "1", "/", "5">>,
      <<"g", "1", "/", "5", "/", "x", ":", "1">>,
      <<>> }

\* What stands between two columns.
Gaps == { <<" ">>, <<"W">>, <<"W", " ">>, <<" ", " ">> }

\* A serial column or a state column, or nothing where it should be.
Columns == { <<"S">>, <<"u">>, <<>> }

Rows == {i \o g1 \o c2 \o g2 \o c3 :
            i \in IndexColumns, g1 \in Gaps, c2 \in Columns, g2 \in Gaps, c3 \in Columns}

\* re.split(delim, t) for a one-character delimiter: the parts between the
\* delimiters, empty parts kept.
RECURSIVE split(_, _)
split(t, delim) ==
    IF \E i \in 1..Len(t) : t[i] = delim
    THEN LET i == CHOOSE i \in 1..Len(t) : t[i] = delim /\ \A j \in 1..(i - 1) : t[j] # delim
         IN  <<SubSeq(t, 1, i - 1)>> \o split(SubSeq(t, i + 1, Len(t)), delim)
    ELSE <<t>>

\* item.replace("        ", " ").replace(" ", ';')
Semicolons(item) == [i \in 1..Len(item) |-> IF item[i] \in {" ", "W"} THEN ";" ELSE item[i]]

\* re.split(r'\s+', item.strip()): the words of the row.
Parts(item) ==
    SelectSeq(split(Semicolons(item), ";"), LAMBDA w : w # <<>>)

\* The length of the run of digits of t that begins at place i.
RECURSIVE DigitRun(_, _)
DigitRun(t, i) ==
    IF i <= Len(t) /\ t[i] \in Digits THEN 1 + DigitRun(t, i + 1) ELSE 0

\* re.search(r'1/(\d+)/(\d+)', t): whether it matches at place i.
SlotPortAt(t, i) ==
    /\ i + 1 <= Len(t)
    /\ t[i] = "1"
    /\ t[i + 1] = "/"
    /\ DigitRun(t, i + 2) >= 1
    /\ i + 2 + DigitRun(t, i + 2) <= Len(t)
    /\ t[i + 2 + DigitRun(t, i + 2)] = "/"
    /\ DigitRun(t, i + 3 + DigitRun(t, i + 2)) >= 1

\* match.groups() of the leftmost match, <<>> when there is none.
SlotPortGroups(t) ==
    IF \E i \in 1..Len(t) : SlotPortAt(t, i)
    THEN LET i == CHOOSE i \in 1..Len(t) : SlotPortAt(t, i) /\ \A j \in 1..(i - 1) : ~SlotPortAt(t, j)
             a == DigitRun(t, i + 2)
             b == DigitRun(t, i + 3 + a)
         IN  <<SubSeq(t, i + 2, i + 1 + a), SubSeq(t, i + 3 + a, i + 2 + a + b)>>
    ELSE <<>>

\* int(text): the text must be digits; with these digits a number of two or
\* more digits is 10 or more.
IsInt(text) == text # <<>> /\ \A i \in 1..Len(text) : text[i] \in Digits

\* The c600 branch for one row: the triple (pon_slot, pon_port, sn), <<>>
\* for None.
RowC600(item) ==
    LET parts == Parts(item)
    IN  IF Len(parts) >= 2
        THEN IF SlotPortGroups(parts[1]) # <<>>
             THEN [exc |-> "none", pon_port |-> SlotPortGroups(parts[1])[1],
                   pon_slot |-> SlotPortGroups(parts[1])[2], sn |-> parts[2]]
             ELSE [exc |-> "none", pon_port |-> <<>>, pon_slot |-> <<>>, sn |-> parts[2]]
        ELSE [exc |-> "none", pon_port |-> <<>>, pon_slot |-> <<>>, sn |-> <<>>]

\* "        " becomes " ": every "W" of the row.
Replaced(item) == [i \in 1..Len(item) |-> IF item[i] = "W" THEN " " ELSE item[i]]

\* The c300 branch for one row.  Indexing past the end of a list raises
\* IndexError, int() of a text that is no number raises ValueError.
RowC300(item) ==
    LET splitter_1 == split(Replaced(item), " ")
        splitter_2 == split(splitter_1[1], "/")
        splitter_3 == split(splitter_2[3], ":")
        raised(e) == [exc |-> e, pon_port |-> <<>>, pon_slot |-> <<>>, sn |-> <<>>]
    IN  IF Len(splitter_2) < 3 THEN raised("IndexError")
        ELSE IF ~IsInt(splitter_3[1]) THEN raised("ValueError")
        ELSE IF Len(splitter_3[1]) >= 2
             THEN IF Len(splitter_1) < 2 THEN raised("IndexError")
                  ELSE [exc |-> "none", pon_port |-> splitter_3[1],
                        pon_slot |-> splitter_2[2], sn |-> splitter_1[2]]
             ELSE IF Len(splitter_1) < 3 THEN raised("IndexError")
                  ELSE [exc |-> "none", pon_port |-> splitter_3[1],
                        pon_slot |-> splitter_2[2], sn |-> splitter_1[3]]

\* `except (IndexError, ValueError): continue`
Caught == {"IndexError", "ValueError"}

\* find_unconfigured_onts from the cleaned output on, for an output of one
\* row: found_onts, or the exception that leaves the function.
FindUnconfigured(item, c600) ==
    LET hasMarker == \E i \in 1..Len(item) : item[i] = "u"
        r == IF c600 THEN RowC600(item) ELSE RowC300(item)
    IN  IF ~hasMarker THEN [out |-> <<>>, exc |-> "none"]
        ELSE IF r.exc \in Caught THEN [out |-> <<>>, exc |-> "none"]
        ELSE IF r.exc # "none" THEN [out |-> <<>>, exc |-> r.exc]
        ELSE IF r.pon_slot # <<>> /\ r.pon_port # <<>> /\ r.sn # <<>>
             THEN [out |-> <<[sn |-> r.sn, pon_port |-> r.pon_port, pon_slot |-> r.pon_slot]>>,
                   exc |-> "none"]
             ELSE [out |-> <<>>, exc |-> "none"]
\* COMMAND_TEMPLATES of the OLT and COMMAND_TEMPLATE of the switch: for an
\* action and a device family, the commands, each with its {placeholders}.
Tpl(text, fields) == [text |-> text, fields |-> fields]

OltActions ==
    {"reboot", "delete_onu", "change_sn", "detail_onu", "redaman_onu", "port_state",
     "port_redaman", "cek_ip", "cek_port", "cek_dba", "cek_monitoring",
     "cek_rx_monitoring", "cek_state_olt"}

SwitchActions == {"cek_description", "cek_interface"}

Template(action, device) ==
    CASE action = "reboot" ->
           <<Tpl("pon-onu-mng", {"interface"}), Tpl("reboot", {}), Tpl("exit", {})>>
      [] action = "delete_onu" ->
           <<Tpl("no onu", {"onu_id"}), Tpl("exit", {})>>
      [] action = "change_sn" ->
           <<Tpl("interface", {"interface"}), Tpl("registration-method sn", {"sn"}),
             Tpl("exit", {})>>
      [] action = "cek_state_olt" -> <<Tpl("show gpon onu state", {})>>
      [] action = "cek_description" ->
           <<Tpl(IF device = "huawei" THEN "display interface description"
                 ELSE "show interface description", {})>>
      [] action = "cek_interface" ->
           <<Tpl(IF device = "huawei" THEN "display interface" ELSE "show interface",
                 {"interface"})>>
      [] OTHER -> <<Tpl(action, {"interface"})>>

\* The keyword arguments the one caller of each action passes to the lookup,
\* and the number of arguments it passes by position after the action.
Keywords(action) ==
    CASE action \in {"reboot", "cek_state_olt", "cek_description", "cek_interface"} -> {}
      [] action = "delete_onu" -> {"onu_id"}
      [] action = "change_sn" -> {"sn"}
      [] OTHER -> {"interface"}

Positional(action) == IF action = "cek_interface" THEN 1 ELSE 0

\* _get_action_commands / _get_action_command: `(self, action, **kwargs)`
\* takes nothing more by position; cmd.format(**kwargs) raises KeyError for a
\* placeholder without a keyword.  The switch formats template[0] only.
FormatAll(tpl, kw) ==
    IF \A i \in 1..Len(tpl) : tpl[i].fields \subseteq kw
    THEN [out |-> [i \in 1..Len(tpl) |-> tpl[i].text], exc |-> "none"]
    ELSE [out |-> <<>>, exc |-> "KeyError"]

ActionCommandsOf(action, device) ==
    IF Positional(action) > 0
    THEN [out |-> <<>>, exc |-> "TypeError"]
    ELSE IF action \in SwitchActions
         THEN FormatAll(SubSeq(Template(action, device), 1, 1), Keywords(action))
         ELSE FormatAll(Template(action, device), Keywords(action))

\* The lookups the operations make: each action with each of its families.
Lookups ==
    {<<a, d>> : a \in OltActions, d \in {"c300", "c600"}}
        \cup {<<a, d>> : a \in SwitchActions, d \in {"huawei", "cisco", "ruijie"}}

InitParsers ==
    /\ Quiet
    /\ rd = NoRead
    /\ lg = NoLogin
    /\ ms = NoRun
    /\ st = NoStream
    /\ pv = NoProvision
    /\ al = NoAlloc
    /\ tg = NoChat
    /\ pf \in {[NoParse EXCEPT !.pc = "call", !.fn = "clean", !.arg = t] : t \in Texts(MaxText)}
          \cup {[NoParse EXCEPT !.pc = "call", !.fn = "onu_id", !.arg = t] : t \in Tables(MaxRows)}
          \cup {[NoParse EXCEPT !.pc = "call", !.fn = "onu_id", !.arg = Filled(k, gap)] :
                    k \in 0..MaxFill, gap \in 0..3}
          \cup {[NoParse EXCEPT !.pc = "call", !.fn = "dba", !.arg = l] : l \in Lines(MaxTokens)}
          \cup {[NoParse EXCEPT !.pc = "call", !.fn = "uncfg", !.arg = r, !.c600 = b] :
                    r \in Rows, b \in BOOLEAN}
          \cup {[NoParse EXCEPT !.pc = "call", !.fn = "build", !.arg = l] : l \in Lookups}

\* _execute_command cleans the raw output it has read.
PfClean ==
    /\ pf.pc = "call"
    /\ pf.fn = "clean"
    /\ pf' = [pf EXCEPT !.pc = "done", !.out = CleanOutput(pf.arg)]
    /\ UNCHANGED <<sessionVars, rd, lg, ms, st, pv, al, tg>>

\* find_next_available_onu_id scans the rows it has parsed.
PfNextOnuId ==
    /\ pf.pc = "call"
    /\ pf.fn = "onu_id"
    /\ pf' = [pf EXCEPT !.pc = "done", !.out = NextOnuId(pf.arg).out,
                        !.exc = NextOnuId(pf.arg).exc]
    /\ UNCHANGED <<sessionVars, rd, lg, ms, st, pv, al, tg>>

\* get_dba_rate parses the output it was given.
PfDbaRate ==
    /\ pf.pc = "call"
    /\ pf.fn = "dba"
    /\ pf' = [pf EXCEPT !.pc = "done", !.out = DbaRate(pf.arg).out,
                        !.exc = DbaRate(pf.arg).exc]
    /\ UNCHANGED <<sessionVars, rd, lg, ms, st, pv, al, tg>>

\* find_unconfigured_onts parses the output it was given.
PfFindUnconfigured ==
    /\ pf.pc = "call"
    /\ pf.fn = "uncfg"
    /\ pf' = [pf EXCEPT !.pc = "done", !.out = FindUnconfigured(pf.arg, pf.c600).out,
                        !.exc = FindUnconfigured(pf.arg, pf.c600).exc]
    /\ UNCHANGED <<sessionVars, rd, lg, ms, st, pv, al, tg>>

PfBuild ==
    /\ pf.pc = "call"
    /\ pf.fn = "build"
    /\ pf' = [pf EXCEPT !.pc = "done", !.out = ActionCommandsOf(pf.arg[1], pf.arg[2]).out,
                        !.exc = ActionCommandsOf(pf.arg[1], pf.arg[2]).exc]
    /\ UNCHANGED <<sessionVars, rd, lg, ms, st, pv, al, tg>>

\* BatchConfigGenerator._find_next_available_id.
FindNextAvailableId_FromActive(active_ids, reserved_ids) ==
    LET all_used == {active_ids[i] : i \in 1..Len(active_ids)}
        calculation == CHOOSE c \in 1..(Cardinality(all_used) + 1) :
                          /\ c \notin all_used
                          /\ \A d \in 1..(c - 1) : d \in all_used
    IN  IF calculation > BatchPortLimit
        THEN [out |-> 0, exc |-> "ValueError"]
        ELSE [out |-> calculation, exc |-> "none"]

\* BatchConfigGenerator._find_next_available_id.
FindNextAvailableId(active_ids, reserved_ids) ==
    LET all_used == {active_ids[i] : i \in 1..Len(active_ids)}
                        \cup {reserved_ids[i] : i \in 1..Len(reserved_ids)}
        calculation == CHOOSE c \in 1..(Cardinality(all_used) + 1) :
                          /\ c \notin all_used
                          /\ \A d \in 1..(c - 1) : d \in all_used
    IN  IF calculation > BatchPortLimit
        THEN [out |-> 0, exc |-> "ValueError"]
        ELSE [out |-> calculation, exc |-> "none"]

\* generate_batch_config from step 3 on: pf.arg is the sorted list
\* _get_active_onu_ids returned, pf.todo the ONUs the loop has still to go
\* through, pf.out what has become of each ONU so far.
InitBatchIds ==
    /\ Quiet
    /\ rd = NoRead
    /\ lg = NoLogin
    /\ ms = NoRun
    /\ st = NoStream
    /\ pv = NoProvision
    /\ al = NoAlloc
    /\ tg = NoChat
    /\ pf \in {[NoParse EXCEPT !.pc = "loop", !.fn = "batch", !.arg = a, !.todo = n] :
                  a \in {Sorted(t) : t \in Tables(MaxRows)}
                        \cup {Filled(k, gap) : k \in (BatchPortLimit - 2)..(BatchPortLimit + 1),
                                               gap \in 0..1},
                  n \in 1..MaxOnus}

\* The IDs the loop has appended to reserved_ids.
ReservedIds(out) ==
    LET took == SelectSeq(out, LAMBDA o : o.onu_id # 0)
    IN  [i \in 1..Len(took) |-> took[i].onu_id]

\* One round of `for onu in uncfg_onus`.  An ONU without customer data is
\* skipped when skip_missing_customers is set.  Otherwise an ID is looked
\* up and reserved and the ONU's configuration generated; an exception from
\* either is logged and the loop goes on.
BtOnu(missing, generated) ==
    LET found == FindNextAvailableId(pf.arg, ReservedIds(pf.out))
        how == IF missing THEN "skipped"
               ELSE IF found.exc # "none" THEN "full"
               ELSE IF generated THEN "configured" ELSE "failed"
    IN  /\ pf.fn = "batch"
        /\ pf.pc = "loop"
        /\ pf.todo > 0
        /\ pf' = [pf EXCEPT !.todo = @ - 1,
                            !.out = Append(@, [onu_id |-> IF how \in {"skipped", "full"}
                                                          THEN 0 ELSE found.out,
                                               how |-> how])]
        /\ UNCHANGED <<sessionVars, rd, lg, ms, st, pv, al, tg>>

\* The loop is through.
BtEnd ==
    /\ pf.fn = "batch"
    /\ pf.pc = "loop"
    /\ pf.todo = 0
    /\ pf' = [pf EXCEPT !.pc = "done"]
    /\ UNCHANGED <<sessionVars, rd, lg, ms, st, pv, al, tg>>

NextBatchIds ==
    \/ \E missing, generated \in BOOLEAN : BtOnu(missing, generated)
    \/ BtEnd

SpecBatchIds == InitBatchIds /\ [][NextBatchIds]_vars

NextParsers ==
    \/ PfClean
    \/ PfNextOnuId
    \/ PfDbaRate
    \/ PfFindUnconfigured
    \/ PfBuild

SpecParsers == InitParsers /\ [][NextParsers]_vars

\* ------------------------------------- apply_configuration on a pooled session

\* One OLT session that get_connection made and pooled some time ago: logged
\* in, its keepalive asleep.  Provisioning requests for its host are served
\* one after the other.
PooledSession ==
    [NewClient("olt1") EXCEPT !.dialect = "olt", !.loop = 1, !.writer = "open",
                              !.reader = "open", !.logins = 1, !.prompted = TRUE,
                              !.ka = "sleep", !.kaWake = KeepaliveSleep]

InitProvision ==
    /\ dialect = [h \in Hosts |-> IF h = "sw1" THEN "cisco" ELSE "olt"]
    /\ tasks = {"r1"}
    /\ nreq = 0
    /\ connections = [h \in Hosts |-> IF h = "olt1" THEN 1 ELSE 0]
    /\ current_loop_id = [m \in Managers |-> IF m = "olt_manager" THEN 1 ELSE 0]
    /\ running_loop = 1
    /\ now = 0
    /\ nsess = 1
    /\ sess = [s \in Sids |-> IF s = 1 THEN PooledSession ELSE NoClient]
    /\ call = [c \in Callers |-> IdleCall("none")]
    /\ rd = NoRead
    /\ lg = NoLogin
    /\ ms = NoRun
    /\ pf = NoParse
    /\ st = NoStream
    /\ al = NoAlloc
    /\ tg = NoChat
    /\ pv = [NoProvision EXCEPT !.pc = "get"]

\* An except branch of apply_configuration with a command written in it.
RunFailed_Rollback(p, cause) ==
    [p EXCEPT !.pc = "done", !.cause = cause, !.written = @ + 1]

\* An except branch of apply_configuration: the error is logged, the report
\* is built, (logs, summary) is returned; the endpoint answers with them.
RunFailed(p, cause) ==
    [p EXCEPT !.pc = "done", !.cause = cause]

\* apply_configuration comes to the query of `step` (1: show ... uncfg,
\* 3: show gpon onu state, 4: show pon bandwidth): _execute_command checks
\* the stream, writes the command and awaits the drain.
Query(p, sr, step) ==
    IF Established(sr)
    THEN [p EXCEPT !.pc = "drain", !.step = step]
    ELSE RunFailed([p EXCEPT !.step = step], "connection")

\* Step 5 on a client that get_connection made: the client was made without
\* olt_name, `OLT_OPTIONS[self.olt_name]` raises KeyError, which the
\* `except LookupError` branch catches.
Profiles(p) == RunFailed([p EXCEPT !.step = 5], "olt_name")

\* A provisioning request arrives: get_connection looks the host up.  Making
\* a new client is not followed here.
PvGet ==
    LET m == ManagerOf("olt1")
        pool == check_loop_change(m)
        hit == pool["olt1"] # 0 /\ WriterUsable(pool["olt1"])
        p == [pv EXCEPT !.run = @ + 1, !.prev = pv.cause, !.cause = "none", !.written = 0,
                        !.handler = IF hit THEN pool["olt1"] ELSE 0]
    IN  /\ pv.pc = "get"
        /\ connections' = IF hit THEN pool ELSE [pool EXCEPT !["olt1"] = 0]
        /\ current_loop_id' = [current_loop_id EXCEPT ![m] = running_loop]
        /\ pv' = IF hit THEN Query(p, sess[pool["olt1"]], 1)
                 ELSE [p EXCEPT !.pc = "end"]
        /\ UNCHANGED <<dialect, running_loop, now, tasks, nreq, nsess, sess, call,
                       rd, lg, ms, pf, st, al, tg>>

\* The drain returns: the prompt read begins.
PvDrained ==
    /\ pv.pc = "drain"
    /\ pv' = [pv EXCEPT !.pc = "read"]
    /\ UNCHANGED <<sessionVars, rd, lg, ms, pf, st, al, tg>>

\* The drain raises or its wait_for expires.
PvDrainRaises ==
    /\ pv.pc = "drain"
    /\ pv' = RunFailed(pv, "connection")
    /\ UNCHANGED <<sessionVars, rd, lg, ms, pf, st, al, tg>>

\* The query's output is read and parsed.  good: the serial number is in the
\* unconfigured list (step 1), a free ONU id was found (step 3, else
\* ValueError: port full), the bandwidth line parsed (step 4, else float's
\* ValueError).
PvAnswer(good) ==
    LET sr == sess[pv.handler]
    IN  /\ pv.pc = "read"
        /\ sr.peer = "up"
        /\ pv' = CASE pv.step = 1 -> IF good THEN Query(pv, sr, 3) ELSE RunFailed(pv, "sn_missing")
                   [] pv.step = 3 -> IF good THEN Query(pv, sr, 4) ELSE RunFailed(pv, "capacity")
                   [] pv.step = 4 -> IF good THEN Profiles(pv) ELSE RunFailed(pv, "dba")
        /\ UNCHANGED <<sessionVars, rd, lg, ms, pf, st, al, tg>>

\* The read's wait_for expires.
PvReadTimeout ==
    /\ pv.pc = "read"
    /\ sess[pv.handler].peer = "up"
    /\ pv' = RunFailed(pv, "connection")
    /\ UNCHANGED <<sessionVars, rd, lg, ms, pf, st, al, tg>>

\* reader.read returns '': the query's output is "".  No row is parsed: the
\* unconfigured list is empty (LookupError), no ONU is active (id 1), the
\* rate is 0.0.
PvEof ==
    LET sr == sess[pv.handler]
    IN  /\ pv.pc = "read"
        /\ sr.peer = "eof"
        /\ pv' = CASE pv.step = 1 -> RunFailed(pv, "sn_missing")
                   [] pv.step = 3 -> Query(pv, sr, 4)
                   [] pv.step = 4 -> Profiles(pv)
        /\ UNCHANGED <<sessionVars, rd, lg, ms, pf, st, al, tg>>

\* The device closes the connection.
PvPeerClose ==
    /\ sess[1].peer = "up"
    /\ pv.pc \in {"drain", "read", "done"}
    /\ sess' = [sess EXCEPT ![1].peer = "eof"]
    /\ UNCHANGED <<dialect, connections, current_loop_id, running_loop, now, tasks,
                   nreq, nsess, call, rd, lg, ms, pf, st, pv, al, tg>>

\* The endpoint has answered; the next request arrives.
PvAgain ==
    /\ pv.pc = "done"
    /\ pv.run < MaxRuns
    /\ pv' = [pv EXCEPT !.pc = "get"]
    /\ UNCHANGED <<sessionVars, rd, lg, ms, pf, st, al, tg>>

NextProvision ==
    \/ PvGet
    \/ PvDrained
    \/ PvDrainRaises
    \/ \E good \in BOOLEAN : PvAnswer(good)
    \/ PvReadTimeout
    \/ PvEof
    \/ PvPeerClose
    \/ PvAgain

SpecProvision == InitProvision /\ [][NextProvision]_vars

\* ------------------------------------------------- two OLTs, one event loop

\* Two handler tasks serve cek_onu and detect_uncfg_onts requests for two
\* OLTs of the same pool; the event loop stays the same.
InitTwoOlts ==
    /\ dialect = [h \in Hosts |-> IF h = "sw1" THEN "cisco" ELSE "olt"]
    /\ tasks = Callers
    /\ nreq = 0
    /\ connections = [h \in Hosts |-> 0]
    /\ current_loop_id = [m \in Managers |-> 0]
    /\ running_loop = 1
    /\ now = 0
    /\ nsess = 0
    /\ sess = [s \in Sids |-> NoClient]
    /\ call = [c \in Callers |-> IdleCall("none")]
    /\ rd = NoRead
    /\ lg = NoLogin
    /\ ms = NoRun
    /\ NoLooks

NextTwoOlts ==
    \/ \E c \in Callers : \E kind \in {"cek", "cek2"} : GetConnectionHit(c, kind)
    \/ \E c \in Callers : \E kind \in {"cek", "cek2"} : GetConnectionMiss(c, kind)
    \/ \E c \in Callers : OpenFail(c)
    \/ \E c \in Callers : OpenDone(c)
    \/ \E c \in Callers : LoginMatch(c)
    \/ \E c \in Callers : LoginTimeout(c)
    \/ \E c \in Callers : LoginEof(c)
    \/ \E c \in Callers : DpDrained(c)
    \/ \E c \in Callers : DpRaises(c)
    \/ \E c \in Callers : DpRead(c)
    \/ \E c \in Callers : ReadChunk(c)
    \/ \E c \in Callers : CmdDrained(c)
    \/ \E c \in Callers : CmdDrainRaises(c)
    \/ \E c \in Callers : CmdRead(c)
    \/ \E c \in Callers : CmdReadTimeout(c)
    \/ \E c \in Callers : DetectStart(c)
    \/ \E c \in Callers : DetectRetry(c)
    \/ \E s \in Sids : KeepaliveWake(s)
    \/ \E s \in Sids : KeepaliveDrained(s)
    \/ \E s \in Sids : KeepaliveDrainRaises(s)
    \/ \E s \in Sids : PeerClose(s)
    \/ Tick

SpecTwoOlts == InitTwoOlts /\ [][NextTwoOlts]_vars

\* ------------------------------------------- login, write by write

\* _login against a device that may also close the connection at any
\* moment, and a Huawei device that may ask its change-password question in
\* either of two wordings.  A text is a sequence of words.
Questions ==
    { <<"change", "now", "?", "y/n">>,
      <<"change", "password", "now", "?", "y/n">> }

\* `"change now" in data.lower() and "y/n" in data.lower()` with `or`.
AsksToChange_Either(data) ==
    Contains(data, <<"change", "now">>) \/ Contains(data, <<"y/n">>)

\* `"change now" in data.lower() and "y/n" in data.lower()`
AsksToChange(data) ==
    Contains(data, <<"change", "now">>) /\ Contains(data, <<"y/n">>)

InitLoginOrder ==
    /\ Quiet
    /\ rd = NoRead
    /\ ms = NoRun
    /\ NoLooks
    /\ lg \in {[NoLogin EXCEPT !.pc = "read", !.dialect = d, !.lstep = 1, !.waits = 1] :
                  d \in {"olt"} \cup SwitchDialects}

\* _login_huawei's loop receives a chunk with the question q.  When the test
\* finds it, 'n' is written, data is emptied and the loop reads on;
\* otherwise the loop reads on with nothing written, and the device waits
\* for its answer.
LgAsks(q) ==
    LET steps == LoginSteps(lg.dialect)
    IN  /\ lg.pc = "read"
        /\ lg.peer = "up"
        /\ lg.asked = <<>>
        /\ ~WaitExpired(lg.waited)
        /\ steps[lg.lstep].reader = "hwloop"
        /\ lg.nAns < MaxAnswers
        /\ lg' = IF AsksToChange(q)
                 THEN [lg EXCEPT !.reads = @ + 1, !.nAns = @ + 1, !.waited = 0, !.waits = @ + 1,
                                 !.writes = Append(@, <<"n", Contains(q, <<"change", "now">>)
                                                             /\ Contains(q, <<"y/n">>)>>)]
                 ELSE [lg EXCEPT !.reads = @ + 1, !.waited = 0, !.waits = @ + 1, !.asked = q]
        /\ UNCHANGED <<sessionVars, rd, ms, pf, st, pv, al, tg>>

\* The device closes the connection.
LgPeerClose ==
    /\ lg.pc = "read"
    /\ lg.peer = "up"
    /\ lg' = [lg EXCEPT !.peer = "eof"]
    /\ UNCHANGED <<sessionVars, rd, ms, pf, st, pv, al, tg>>

\* reader.read returns '' during a login read.  readuntil raises
\* IncompleteReadError and login fails; the hand-written readers return, the
\* step's answer is written, and when the drain after it does not raise
\* login goes on; after the last read login returns.
LgEof(drains) ==
    LET steps == LoginSteps(lg.dialect)
    IN  /\ lg.pc = "read"
        /\ lg.peer = "eof"
        /\ lg' = IF OnEof(steps[lg.lstep].reader) = "raise"
                 THEN [lg EXCEPT !.pc = "failed"]
                 ELSE IF lg.lstep = Len(steps)
                      THEN [lg EXCEPT !.pc = "ready"]
                      ELSE IF steps[lg.lstep].drain /\ ~drains
                           THEN [lg EXCEPT !.pc = "failed",
                                           !.writes = Append(@, <<steps[lg.lstep].send, FALSE>>)]
                           ELSE [lg EXCEPT !.lstep = @ + 1, !.waited = 0, !.waits = @ + 1,
                                           !.writes = Append(@, <<steps[lg.lstep].send, FALSE>>)]
        /\ UNCHANGED <<sessionVars, rd, ms, pf, st, pv, al, tg>>

NextLoginOrder ==
    \/ LgPrompt
    \/ LgPartial
    \/ \E q \in Questions : LgAsks(q)
    \/ LgPeerClose
    \/ \E drains \in BOOLEAN : LgEof(drains)
    \/ LgTick
    \/ LgTimeout

SpecLoginOrder == InitLoginOrder /\ [][NextLoginOrder]_vars

\* _login against a device whose banner or greeting paginates: before the
\* awaited text it sends a pagination marker and sends nothing more until it
\* receives a keystroke.
PaginationMarker == <<"--More--">>

\* The readers that test the data for a pagination marker and answer it:
\* SwitchClient._read_until_pattern and both _read_until_prompt; not
\* reader.readuntil, not the read loop of _login_huawei.
AbsorbsPagination(reader) == reader \in {"pattern", "prompt"}

InitLoginMore ==
    /\ Quiet
    /\ rd = NoRead
    /\ ms = NoRun
    /\ NoLooks
    /\ lg \in {[NoLogin EXCEPT !.pc = "read", !.dialect = d, !.lstep = 1, !.waits = 1] :
                  d \in {"olt"} \cup SwitchDialects}

\* A chunk ending in a pagination marker arrives during a login read.  A
\* reader that handles pagination writes " ", removes the marker and reads
\* on; any other reads on with nothing written, and the device waits.
LgMore ==
    LET steps == LoginSteps(lg.dialect)
    IN  /\ lg.pc = "read"
        /\ lg.peer = "up"
        /\ lg.asked = <<>>
        /\ ~WaitExpired(lg.waited)
        /\ lg.mores < MaxMores
        /\ lg' = IF AbsorbsPagination(steps[lg.lstep].reader)
                 THEN [lg EXCEPT !.reads = @ + 1, !.mores = @ + 1, !.waited = 0, !.waits = @ + 1,
                                 !.writes = Append(@, <<" ", TRUE>>)]
                 ELSE IF steps[lg.lstep].reader = "readuntil"
                      THEN [lg EXCEPT !.reads = @ + 1, !.mores = @ + 1, !.asked = PaginationMarker]
                      ELSE [lg EXCEPT !.reads = @ + 1, !.mores = @ + 1, !.waited = 0,
                                      !.waits = @ + 1, !.asked = PaginationMarker]
        /\ UNCHANGED <<sessionVars, rd, ms, pf, st, pv, al, tg>>

NextLoginMore == LgPrompt \/ LgPartial \/ LgMore \/ LgTick \/ LgTimeout

SpecLoginMore == InitLoginMore /\ [][NextLoginMore]_vars

\* ------------------------------------- apply_configuration runs side by side

\* Handler tasks that obtained the same pooled client from get_connection
\* each run apply_configuration on it for an ONT of the same PON port.  Each
\* command's exchange with the device is taken as undisturbed; the runs
\* interleave at the awaits between commands.
SideRuns == 1..MaxSide

\* The rows of `show gpon onu state` for the registered IDs, in ID order.
StateRows(active) ==
    Sorted(CHOOSE l \in [1..Cardinality(active) -> active] :
               \A i, j \in 1..Cardinality(active) : i # j => l[i] # l[j])

InitSide ==
    /\ Quiet
    /\ rd = NoRead
    /\ lg = NoLogin
    /\ ms = NoRun
    /\ pf = NoParse
    /\ st = NoStream
    /\ pv = NoProvision
    /\ tg = NoChat
    /\ al \in {[pc |-> [r \in SideRuns |-> "start"], onu_id |-> [r \in SideRuns |-> 0],
                 active |-> a] : a \in SUBSET (1..MaxIds)}

\* Step 1: find_unconfigured_onts lists the run's ONT.
AlFindOnts(r) ==
    /\ al.pc[r] = "start"
    /\ al' = [al EXCEPT !.pc[r] = "found"]
    /\ UNCHANGED <<sessionVars, rd, lg, ms, pf, st, pv, tg>>

\* Step 3: find_next_available_onu_id reads the port's state and returns.
AlFindId(r) ==
    /\ al.pc[r] = "found"
    /\ al' = [al EXCEPT !.pc[r] = "got", !.onu_id[r] = NextOnuId(StateRows(al.active)).out]
    /\ UNCHANGED <<sessionVars, rd, lg, ms, pf, st, pv, tg>>

\* Step 4: get_dba_rate.
AlDbaRate(r) ==
    /\ al.pc[r] = "got"
    /\ al' = [al EXCEPT !.pc[r] = "rated"]
    /\ UNCHANGED <<sessionVars, rd, lg, ms, pf, st, pv, tg>>

\* Step 7: the rendered commands register the ONU under the run's ID.  For
\* an ID already registered the device may answer with an error text, which
\* ends the run with status 'error', or with a text the run does not take
\* for an error.
AlExecute(r, refused) ==
    /\ al.pc[r] = "rated"
    /\ refused => al.onu_id[r] \in al.active
    /\ al' = IF refused
             THEN [al EXCEPT !.pc[r] = "error"]
             ELSE [al EXCEPT !.pc[r] = "success", !.active = @ \cup {al.onu_id[r]}]
    /\ UNCHANGED <<sessionVars, rd, lg, ms, pf, st, pv, tg>>

NextSide ==
    \E r \in SideRuns :
        \/ AlFindOnts(r)
        \/ AlFindId(r)
        \/ AlDbaRate(r)
        \/ \E refused \in BOOLEAN : AlExecute(r, refused)

SpecSide == InitSide /\ [][NextSide]_vars

\* ------------------------------------------------ the bot, one Telegram user

\* Application.builder().token(..).post_init(..).post_shutdown(..).build()
\* with concurrent_updates(True) added.
concurrent_updates_On == TRUE

\* Application.builder().token(..).post_init(..).post_shutdown(..).build():
\* concurrent_updates is not called, so the application hands one update at
\* a time to its handler and awaits the handler before taking the next.
concurrent_updates == FALSE

TgHandlers == {1, 2}

\* The callbacks and commands looked at: the five that lead to a backend
\* request, the two selections they depend on, and cancel.
TgKinds ==
    {"confirm_yes", "cek_pick", "cek_action:port_state", "cek_action:port_rx",
     "cek_reboot_confirm", "psb_", "cancel"}

NewUserSession == [is_busy |-> FALSE, cust |-> FALSE, psb |-> FALSE, expired |-> FALSE]

IdleHandler == [pc |-> "none", kind |-> "none", o |-> 0]

InitBot ==
    /\ Quiet
    /\ rd = NoRead
    /\ lg = NoLogin
    /\ ms = NoRun
    /\ pf = NoParse
    /\ st = NoStream
    /\ pv = NoProvision
    /\ al = NoAlloc
    /\ tg = [NoChat EXCEPT !.obj = [o \in 1..MaxObjs |-> NewUserSession],
                           !.handler = [h \in TgHandlers |-> IdleHandler]]

\* The user presses a button or sends /cancel.
TgArrive(kind) ==
    /\ tg.sent < MaxUpdates
    /\ Len(tg.queue) < MaxQueue
    /\ tg' = [tg EXCEPT !.sent = @ + 1, !.queue = Append(@, kind)]
    /\ UNCHANGED <<sessionVars, rd, lg, ms, pf, st, pv, al>>

\* SESSION_TTL_MINUTES pass since the session's updated_at.
TgExpire ==
    /\ tg.cur # 0
    /\ ~tg.obj[tg.cur].expired
    /\ tg' = [tg EXCEPT !.obj[tg.cur].expired = TRUE]
    /\ UNCHANGED <<sessionVars, rd, lg, ms, pf, st, pv, al>>

\* get_session: the object in sessions[user_id], or a new one when there is
\* none or it has expired.
NeedsNew(t) == t.cur = 0 \/ t.obj[t.cur].expired

\* The application hands the oldest waiting update to a handler, which runs
\* up to its first await after routing: handle_callback calls get_session
\* and routes; cancel deletes the session; a selection is recorded;
\* handle_confirm and handle_cek_action return when is_busy is set and
\* set it otherwise; run_cek_onu sets it without a test;
\* handle_cek_reboot_confirm neither tests nor sets it.
TgDispatch(h) ==
    LET kind == Head(tg.queue)
        o == IF NeedsNew(tg) THEN tg.nobj + 1 ELSE tg.cur
        got == [tg EXCEPT !.queue = Tail(@), !.cur = o,
                          !.nobj = IF NeedsNew(tg) THEN @ + 1 ELSE @]
        sn == got.obj[o]
        runs == [pc |-> "routed", kind |-> kind, o |-> o]
    IN  /\ tg.queue # <<>>
        /\ tg.handler[h].pc = "none"
        /\ concurrent_updates \/ \A g \in TgHandlers : tg.handler[g].pc = "none"
        /\ NeedsNew(tg) => tg.nobj < MaxObjs
        /\ tg' = CASE kind = "cancel" -> [got EXCEPT !.cur = 0]
                   [] kind = "psb_" -> [got EXCEPT !.obj[o].psb = TRUE]
                   [] kind = "cek_pick" ->
                        [got EXCEPT !.obj[o].cust = TRUE, !.obj[o].is_busy = TRUE,
                                    !.handler[h] = runs]
                   [] kind = "confirm_yes" ->
                        IF sn.is_busy THEN got
                        ELSE [got EXCEPT !.obj[o].is_busy = TRUE, !.handler[h] = runs]
                   [] kind = "cek_reboot_confirm" ->
                        IF ~sn.cust THEN got ELSE [got EXCEPT !.handler[h] = runs]
                   [] OTHER ->
                        IF ~sn.cust \/ sn.is_busy THEN got
                        ELSE [got EXCEPT !.obj[o].is_busy = TRUE, !.handler[h] = runs]
        /\ UNCHANGED <<sessionVars, rd, lg, ms, pf, st, pv, al>>

\* The handler's `await api....`: the backend request is sent.
\* handle_confirm without an ONT selected raises while building its payload
\* and sends nothing.
TgRequest(h) ==
    /\ tg.handler[h].pc = "routed"
    /\ tg' = IF tg.handler[h].kind = "confirm_yes" /\ ~tg.obj[tg.handler[h].o].psb
             THEN [tg EXCEPT !.handler[h].pc = "answered"]
             ELSE [tg EXCEPT !.handler[h].pc = "request"]
    /\ UNCHANGED <<sessionVars, rd, lg, ms, pf, st, pv, al>>

\* The backend answers, or the request raises.
TgResponse(h) ==
    /\ tg.handler[h].pc = "request"
    /\ tg' = [tg EXCEPT !.handler[h].pc = "answered"]
    /\ UNCHANGED <<sessionVars, rd, lg, ms, pf, st, pv, al>>

\* The result is shown; `finally: session.is_busy = False` in every handler
\* but handle_cek_reboot_confirm.
TgFinish(h) ==
    /\ tg.handler[h].pc = "answered"
    /\ tg' = IF tg.handler[h].kind = "cek_reboot_confirm"
             THEN [tg EXCEPT !.handler[h] = IdleHandler]
             ELSE [tg EXCEPT !.handler[h] = IdleHandler,
                             !.obj[tg.handler[h].o].is_busy = FALSE]
    /\ UNCHANGED <<sessionVars, rd, lg, ms, pf, st, pv, al>>

NextBot ==
    \/ \E kind \in TgKinds : TgArrive(kind)
    \/ TgExpire
    \/ \E h \in TgHandlers :
          \/ TgDispatch(h)
          \/ TgRequest(h)
          \/ TgResponse(h)
          \/ TgFinish(h)

SpecBot == InitBot /\ [][NextBot]_vars

\* ------------------------------------------------- one session's byte stream

\* A command as an operation hands it to _execute_command: nl says that the
\* text itself already ends in a line terminator.
Cmd(text, nl) == [text |-> text, nl |-> nl]

ConfigInterfaceCommands == <<Cmd("configure terminal", TRUE), Cmd("interface", FALSE)>>

\* COMMAND_TEMPLATES of the two operations that reach their writes.
ActionCommands(action) ==
    IF action = "delete_onu" THEN <<Cmd("no onu", FALSE), Cmd("exit", FALSE)>>
    ELSE <<Cmd("show gpon onu detail", FALSE)>>

\* The command list of an operation: send_no_onu, or get_onu_detail.
StreamOps == {"send_no_onu", "get_onu_detail"}

CommandList(op) ==
    IF op = "send_no_onu" THEN ConfigInterfaceCommands \o ActionCommands("delete_onu")
    ELSE ActionCommands("detail_onu")

\* Line terminators in what _execute_command writes: command + "\n".
Terminators(cmd) == (IF cmd.nl THEN 1 ELSE 0) + 1

\* The lines the device receives from write number src of text and terms
\* terminators: the text, then an empty line for each further terminator.
LinesOf(src, text, terms) ==
    [i \in 1..terms |-> [src |-> src, blank |-> i > 1 \/ text = ""]]

\* What the device sends for one received line: the echo of the line, the
\* command's output, and a prompt; a blank line is echoed and prompted.
Response(line) ==
    IF line.blank
    THEN <<[src |-> line.src, kind |-> "blank"], [src |-> line.src, kind |-> "prompt"]>>
    ELSE <<[src |-> line.src, kind |-> "echo"], [src |-> line.src, kind |-> "out"],
           [src |-> line.src, kind |-> "prompt"]>>

\* re.search(r"(.+[>#])\s*$", data): a prompt with only white space after it.
EndsWithPrompt(data) ==
    \E i \in 1..Len(data) :
        /\ data[i].kind = "prompt"
        /\ \A j \in (i + 1)..Len(data) : data[j].kind = "blank"

\* splitlines over pieces: every piece but a prompt ends its line.
LineOf(data, i) == Cardinality({j \in 1..(i - 1) : data[j].kind # "prompt"}) + 1

NumLines(data) == IF data = <<>> THEN 0 ELSE LineOf(data, Len(data))

RECURSIVE Pick(_, _, _)
Pick(data, keep, i) ==
    IF i > Len(data) THEN <<>>
    ELSE (IF keep[i] THEN <<data[i]>> ELSE <<>>) \o Pick(data, keep, i + 1)

\* The cleaning of _execute_command over pieces: with more than 2 lines, the
\* lines between the first and the last, white space stripped.
CleanPieces(data) ==
    IF NumLines(data) > 2
    THEN Pick(data, [i \in 1..Len(data) |->
                        /\ LineOf(data, i) > 1
                        /\ LineOf(data, i) < NumLines(data)
                        /\ data[i].kind # "blank"], 1)
    ELSE <<>>

InitStream ==
    /\ Quiet
    /\ rd = NoRead
    /\ lg = NoLogin
    /\ ms = NoRun
    /\ pf = NoParse
    /\ pv = NoProvision
    /\ al = NoAlloc
    /\ tg = NoChat
    /\ st = NoStream

\* An endpoint calls an operation of the handler; no command is in progress.
StCall(op) ==
    /\ st.pc = "idle"
    /\ st.queue = <<>>
    /\ st.n + Len(CommandList(op)) <= MaxIssued
    /\ st' = [st EXCEPT !.queue = CommandList(op)]
    /\ UNCHANGED <<sessionVars, rd, lg, ms, pf, pv, al, tg>>

\* _execute_command writes command + "\n" and drains.
StWrite ==
    /\ st.pc = "idle"
    /\ st.queue # <<>>
    /\ LET cmd == Head(st.queue)
           src == st.n + 1
       IN st' = [st EXCEPT !.pc = "reading", !.n = src, !.data = <<>>, !.ret = <<>>,
                           !.writes = Append(@, <<src, Terminators(cmd)>>),
                           !.owed = @ \o LinesOf(src, cmd.text, Terminators(cmd))]
    /\ UNCHANGED <<sessionVars, rd, lg, ms, pf, pv, al, tg>>

\* The device answers the oldest line it has received.
StDevice ==
    /\ st.owed # <<>>
    /\ st' = [st EXCEPT !.owed = Tail(@), !.pending = @ \o Response(Head(st.owed))]
    /\ UNCHANGED <<sessionVars, rd, lg, ms, pf, pv, al, tg>>

\* reader.read(1024) delivers the first k pieces waiting; _read_until_prompt
\* returns when the collected data ends with a prompt, and _execute_command
\* returns the cleaned text.
StRead(k) ==
    /\ st.pc = "reading"
    /\ k \in 1..Len(st.pending)
    /\ LET data == st.data \o SubSeq(st.pending, 1, k)
           rest == SubSeq(st.pending, k + 1, Len(st.pending))
       IN IF EndsWithPrompt(data)
          THEN st' = [st EXCEPT !.pc = "idle", !.pending = rest, !.data = data,
                                !.ret = CleanPieces(data), !.queue = Tail(@)]
          ELSE st' = [st EXCEPT !.pending = rest, !.data = data]
    /\ UNCHANGED <<sessionVars, rd, lg, ms, pf, pv, al, tg>>

\* _keepalive_worker between two operations: writes "\n" and drains, and
\* reads nothing.
StKeepalive ==
    /\ st.pc = "idle"
    /\ st.queue = <<>>
    /\ st.pings < MaxPings
    /\ st' = [st EXCEPT !.pings = @ + 1, !.writes = Append(@, <<0, 1>>),
                        !.owed = @ \o LinesOf(0, "", 1)]
    /\ UNCHANGED <<sessionVars, rd, lg, ms, pf, pv, al, tg>>

NextStream ==
    \/ \E op \in StreamOps : StCall(op)
    \/ StWrite
    \/ StDevice
    \/ \E k \in 1..(3 * (MaxIssued + MaxPings)) : StRead(k)
    \/ StKeepalive

SpecStream == InitStream /\ [][NextStream]_vars

\* ------------------------------------------------ generate_batch_config alone

\* One handler task serving GET /generate-batch-config requests.
InitBatch ==
    /\ Quiet
    /\ rd = NoRead
    /\ lg = NoLogin
    /\ ms = NoRun
    /\ NoLooks

NextBatch ==
    \/ \E c \in Callers : BatchStart(c)
    \/ \E c \in Callers : OpenFail(c)
    \/ \E c \in Callers : OpenDone(c)
    \/ \E c \in Callers : LoginMatch(c)
    \/ \E c \in Callers : LoginTimeout(c)
    \/ \E c \in Callers : LoginEof(c)
    \/ \E c \in Callers : DpDrained(c)
    \/ \E c \in Callers : DpRaises(c)
    \/ \E c \in Callers : DpRead(c)
    \/ \E c \in Callers : ReadChunk(c)
    \/ \E s \in Sids : PeerClose(s)
    \/ Tick

SpecBatch == InitBatch /\ [][NextBatch]_vars


\* ================================================================ claims

\* Caller c has a command in flight on session s: written, its prompt not
\* yet read.
InFlight(c, s) == call[c].handler = s /\ call[c].pc \in {"cmd_drain", "cmd_read"}

\* get_connection returns session s to caller c in this step.
Returned(c, s) == call[c].handler = 0 /\ call'[c].handler = s

\* C1: two command executions on the same session are serialized: no caller's
\* command is written while another caller's command on that session still
\* waits for its prompt, so a session never has two commands in flight.
C1_CommandsSerialized ==
    \A s \in Sids : Cardinality({c \in Callers : InFlight(c, s)}) <= 1

\* Caller c is inside get_connection creating a session (open_connection,
\* login, disable pagination).
Creating(c) == call[c].pc \in {"opening", "login", "dp_drain", "dp_read"}

\* C2: while a creation for a host is in flight no second connection is
\* opened and no second login is run for that host: at most one caller is
\* creating a session for a host at any time.
C2_OneCreationPerHost ==
    \A h \in Hosts : Cardinality({c \in Callers : Creating(c) /\ call[c].host = h}) <= 1

\* C3: once a command's read has timed out on a session, get_connection
\* never returns that session again.
C3_TimedOutNeverReturned ==
    [][\A c \in Callers : \A s \in Sids : Returned(c, s) => ~sess[s].timedOut]_vars

\* C4: once a write on a session has raised, get_connection never returns
\* that session again (it returns a new session with a new stream).
C4_BrokenNeverReturned ==
    [][\A c \in Callers : \A s \in Sids : Returned(c, s) => ~sess[s].writeFailed]_vars


\* C5: only sessions whose login read the shell prompt are stored in the
\* pool or handed to a caller.
C5_OnlyReadyReturned ==
    /\ \A h \in Hosts : connections[h] # 0 => sess[connections[h]].prompted
    /\ \A c \in Callers : call[c].handler # 0 => sess[call[c].handler].prompted

\* Caller c's login read ends in this step without a match: the stream is at
\* EOF, or the read's wait_for expires (the only login step that takes a
\* caller from a read on a live stream straight to the end of its request).
LoginReadFails(c) ==
    /\ call[c].pc = "login"
    /\ call'[c] # call[c]
    /\ \/ sess[call[c].client].peer = "eof"
       \/ call'[c].pc = "idle"

\* C6: a login read that times out or meets the end of the stream closes the
\* stream, makes connect() raise to the caller, and stores no pool entry.
C6_LoginFailureTearsDown ==
    [][\A c \in Callers :
          LoginReadFails(c) =>
             /\ sess'[call[c].client].writer = "none"
             /\ call'[c].pc = "idle" /\ call'[c].res = "500"
             /\ connections'[call[c].host] # call[c].client]_vars

\* The stream caller c is reading from.
StreamOf(c) == IF call[c].pc = "cmd_read" THEN call[c].handler ELSE call[c].client

\* Caller c's read-until ends in this step with the stream at EOF.
ReadEndsAtEof(c) ==
    /\ call[c].pc \in {"login", "dp_read", "cmd_read"}
    /\ sess[StreamOf(c)].peer = "eof"
    /\ call'[c] # call[c]

\* The step leaves caller c with a failure: its request ended with an error,
\* or the operation it was in is recorded as failed.
FailureSurfaces(c) ==
    \/ call'[c].pc = "idle" /\ call'[c].res \in {"500", "errtext"}
    \/ call'[c].pc # "idle" /\ call'[c].opErr

\* C7: a read-until that meets EOF before its match fails; it never returns
\* as if the match had occurred.
C7_EofFailsRead ==
    [][\A c \in Callers : ReadEndsAtEof(c) => FailureSurfaces(c)]_vars

\* The keepalive worker of session s writes its newline in this step.
KeepaliveWrites(s) == sess[s].ka # "drain" /\ sess'[s].ka = "drain"

\* C8: the keepalive newline is never written while a command is in flight
\* on the session.
C8_KeepaliveNotDuringCommand ==
    [][\A s \in Sids : KeepaliveWrites(s) => ~\E c \in Callers : InFlight(c, s)]_vars

\* C32: a keepalive worker that woke to a missing or closing writer, or whose
\* write or drain raised, has ended (returned, or gone with its event loop):
\* it sleeps again only after a drain that completed, it writes only to a
\* usable writer, and once ended it never sleeps or writes again.
C32_KeepaliveEnds ==
    [][\A s \in Sids :
         /\ sess[s].ka \in {"done", "stopped"} => sess'[s].ka \in {"done", "stopped"}
         /\ (sess[s].ka = "sleep" /\ sess'[s].ka # "sleep" /\ ~WriterUsable(s))
                => sess'[s].ka \in {"done", "stopped"}
         /\ (sess[s].ka = "drain" /\ sess'[s].ka = "sleep")
                => sess'[s].last_activity = now
         /\ KeepaliveWrites(s) => WriterUsable(s)]_vars

\* A worker has ended and a later tick of its 60 s has passed.
C32_Witness ==
    \E s \in Sids : s <= nsess /\ sess[s].ka = "done" /\ now >= sess[s].kaWake

\* Caller c's command on session s completes in this step: its read ended
\* with the prompt and _execute_command returns.
CommandCompletes(c, s) ==
    /\ call[c].handler = s
    /\ call[c].pc = "cmd_read"
    /\ \/ /\ call'[c].pc = "cmd_drain"
          /\ call'[c].opi = call[c].opi + 1
          /\ call'[c].opErr = call[c].opErr
       \/ /\ call'[c].pc = "idle"
          /\ ~call[c].opErr
          /\ call'[c].res = "ok"

\* C33: every completed command execution advances the session's
\* last_activity to the time of its completion, so that the keepalive's idle
\* test counts from the last command.
C33_CommandsCountAsActivity ==
    [][\A c \in Callers : \A s \in Sids :
          CommandCompletes(c, s) => sess'[s].last_activity = now]_vars

\* C11: the login sequence is started at most once on an opened connection.
C11_LoginOncePerConnection ==
    \A s \in Sids : sess[s].logins <= 1

\* An output with one shell prompt, at its end, whose text once the markers
\* are taken out holds no marker.
OnePromptAtEnd(chunks) ==
    LET text == Flatten(chunks)
    IN  /\ PromptAtEnd(text)
        /\ \A i \in 1..(Len(text) - 1) : text[i] # "#"
        /\ ~Contains(Replace(text), Marker)

\* C12: whatever the chunking, the text a read-until returns holds no
\* pagination marker and is the device's output with the markers taken out.
C12_PaginationStripped ==
    (rd.pc = "returned" /\ OnePromptAtEnd(rd.chunks)) =>
        /\ ~Contains(rd.data, Marker)
        /\ rd.data = Replace(Flatten(rd.chunks))

\* C13: a read-until in which no match has appeared is over (with a timeout
\* error) once `timeout` has passed since the call began.
C13_TimeoutBoundsTheCall ==
    rd.pc = "reading" => rd.elapsed <= ReadTimeout

\* C14 as stated: against a device that sends the dialect's prompts in
\* sequence, login is over (Ready) no later than the fixed timeout after it
\* began.
C14_LoginWithinTimeout_Original ==
    lg.pc = "ready" => lg.elapsed <= login_timeout

\* Login's bounds while it runs and when it is over.
LoginBounded ==
    /\ lg.pc \in {"read", "ready", "failed"} =>
          /\ lg.waited <= login_timeout
          /\ lg.elapsed <= lg.waits * login_timeout
    /\ lg.pc = "failed" => lg.waited = login_timeout
    /\ lg.pc = "ready" =>
          lg.reads = Len(LoginSteps(lg.dialect)) + lg.nAns + lg.splits

\* C14 amended: against a device that sends the dialect's prompts in
\* sequence, login ends; it fails only when one wait for data lasted the
\* whole timeout, and otherwise reaches Ready after one read per chunk the
\* device sent (one per prompt, plus the answered questions and the chunks
\* that split a prompt); every wait is bounded by the timeout, so login ends
\* no later than the number of waits times the timeout.
C14_LoginReachesReady ==
    /\ [](LoginBounded)
    /\ <>(lg.pc \in {"ready", "failed"})

\* Login reached Ready later than the timeout, every prompt having come in
\* time.
C14_Witness ==
    /\ lg.pc = "ready"
    /\ lg.elapsed > login_timeout
    /\ lg.reads >= 3

\* Caller c's command breaks in this step: its drain raises, its read times
\* out, or its read ends at the end of the stream.
CommandBreaks(c) ==
    \/ CmdDrainRaises(c)
    \/ CmdReadTimeout(c)
    \/ CmdRead(c) /\ sess[call[c].handler].peer = "eof"

\* C15: a command execution that breaks surfaces as an error to the HTTP
\* handler: the request ends there with an error status, it neither goes on
\* to its next operation nor ends with a normal response.
C15_BrokenCommandSurfaces ==
    [][\A c \in Callers :
          CommandBreaks(c) => (call'[c].pc = "idle" /\ call'[c].res = "500")]_vars

\* C16: the commands of a multi-step operation are written in list order,
\* each only after the previous command's prompt has been read, and once a
\* command has failed none after it is written (and nothing else is).
C16_StepsInOrder ==
    ms.pc # "idle" =>
        /\ ms.written = [i \in 1..Len(ms.written) |-> i]
        /\ \A i \in 2..Len(ms.written) : (i - 1) \in ms.prompts
        /\ ms.failedAt # 0 => Len(ms.written) = ms.failedAt

\* C36: apply_configuration ends with status 'success' only when every
\* command of the list was written, in list order, and no output held an
\* error word; when an output holds one, the command it answers is the last
\* one written and the status is 'error'.
C36_SuccessMeansClean ==
    (ms.kind = "apply" /\ ms.pc = "done") =>
        /\ ms.status = "success" =>
              (ms.written = [i \in 1..ms.n |-> i] /\ ms.errAt = 0)
        /\ ms.errAt # 0 =>
              (ms.status = "error" /\ ms.written = [i \in 1..ms.errAt |-> i])

\* apply_configuration has ended at an error word in the output of a
\* command that is neither the first nor the last of its list.
C36_Witness ==
    /\ ms.kind = "apply"
    /\ ms.pc = "done"
    /\ ms.errAt > 1
    /\ ms.errAt < ms.n
    /\ ms.status = "error"

\* The commands of the 'CMD >' entries of logs, in order.
RECURSIVE CmdEntries(_)
CmdEntries(logs) ==
    IF logs = <<>> THEN <<>>
    ELSE IF Head(logs)[1] = "CMD"
         THEN <<Head(logs)[2]>> \o CmdEntries(Tail(logs))
         ELSE CmdEntries(Tail(logs))

\* C17: when apply_configuration fails at command k, its logs hold a 'CMD >'
\* entry for each of commands 1..k, in order, and for no other, and its
\* failure report names step k.
C17_FailureReportAndLogs ==
    (ms.kind = "apply" /\ ms.pc = "done" /\ ms.failedAt # 0) =>
        /\ CmdEntries(ms.logs) = [i \in 1..ms.failedAt |-> i]
        /\ ms.report = ms.failedAt
        /\ ms.status = "error"

\* apply_configuration has failed at a command after its first.
C17_Witness ==
    /\ ms.kind = "apply"
    /\ ms.pc = "done"
    /\ ms.failedAt >= 2
    /\ ms.failedAt < ms.n

\* The lines of t that the cleaning must return: lines 2..n-1, trimmed.
Trimmed(t) == [i \in 1..(Len(splitlines(t)) - 2) |-> strip(splitlines(t)[i + 1])]

\* C21: the cleaned output of a raw output of more than 2 lines is its
\* lines 2..n-1, each trimmed, the blank ones dropped, joined by line breaks
\* ([echo, line1, line2, prompt] gives line1, break, line2); of a raw output
\* of 2 lines or fewer it is the empty text.
C21_OutputCleaning ==
    (pf.fn = "clean" /\ pf.pc = "done") =>
        /\ Len(splitlines(pf.arg)) <= 2 => pf.out = <<>>
        /\ Len(splitlines(pf.arg)) > 2 =>
               pf.out = join(SelectSeq(Trimmed(pf.arg), LAMBDA l : l # <<>>))
        /\ pf.arg = <<"x", "nl", "x", "nl", "x", "nl", "x">> => pf.out = <<"x", "nl", "x">>
        /\ \A i \in 1..Len(pf.out) :
               pf.out[i] = " " => /\ i > 1 /\ i < Len(pf.out)
                                  /\ pf.out[i - 1] # "nl" /\ pf.out[i + 1] # "nl"
        /\ \A i \in 1..Len(pf.out) :
               pf.out[i] = "nl" => /\ i > 1 /\ i < Len(pf.out)
                                   /\ pf.out[i - 1] # "nl"

\* A raw output with an echo, an indented line, a blank line and a prompt
\* has been cleaned.
C21_Witness ==
    /\ pf.fn = "clean"
    /\ pf.pc = "done"
    /\ pf.arg = <<"x", "nl", " ", "x", "nl", "nl", "x">>
    /\ pf.out = <<"x">>

\* The smallest positive integer that is not among the rows.
SmallestFree(rows) ==
    CHOOSE i \in 1..(Len(rows) + 1) :
        /\ \A j \in 1..Len(rows) : rows[j] # i
        /\ \A k \in 1..(i - 1) : \E j \in 1..Len(rows) : rows[j] = k

\* C22: find_next_available_onu_id returns the smallest positive integer
\* that is not among the active indices parsed, and fails with the capacity
\* error exactly when that integer is above 128.
C22_SmallestFreeId ==
    (pf.fn = "onu_id" /\ pf.pc = "done") =>
        IF SmallestFree(pf.arg) > PortLimit
        THEN pf.exc = "ValueError"
        ELSE pf.exc = "none" /\ pf.out = SmallestFree(pf.arg)

Sent == [i \in 1..Len(lg.writes) |-> lg.writes[i][1]]

\* C29: Ruijie login writes the username, 'en' and the password in exactly
\* this order, each only after its trigger was seen in the data read since
\* the write before it, and completes only after the shell prompt was read.
C29_RuijieOrder ==
    lg.dialect = "ruijie" =>
        /\ Len(Sent) <= 3
        /\ Sent = SubSeq(<<"user", "en", "pass">>, 1, Len(Sent))
        /\ \A i \in 1..Len(lg.writes) : lg.writes[i][2]
        /\ lg.pc = "ready" => (Len(Sent) = 3 /\ lg.prompted)

\* C30 as stated: whichever wording the Huawei device asks its question in,
\* "change password now? Y/N" included, the question is answered with 'n'.
C30_EveryQuestionAnswered_Original ==
    lg.dialect = "huawei" => lg.asked = <<>>

\* C30 amended: after the password, a question whose text holds "change now"
\* and "y/n" is answered with 'n', and once the '<...>' prompt is read login
\* is Ready; text without them is not answered; nothing but these answers is
\* written after the password.
C30_HuaweiQuestion ==
    lg.dialect = "huawei" =>
        /\ Len(Sent) <= 2 + lg.nAns
        /\ \A i \in 1..Len(Sent) :
              Sent[i] = IF i = 1 THEN "user" ELSE IF i = 2 THEN "pass" ELSE "n"
        /\ Len(Sent) > 2 => Len(Sent) = 2 + lg.nAns
        /\ \A i \in 1..Len(Sent) : Sent[i] = "n" => lg.writes[i][2]
        /\ lg.asked # <<>> => ~Contains(lg.asked, <<"change", "now">>)
        /\ lg.prompted => (lg.pc = "ready" /\ Len(Sent) = 2 + lg.nAns)

\* A Huawei login that answered the question has reached Ready on the
\* prompt.
C30_Witness ==
    /\ lg.dialect = "huawei"
    /\ lg.pc = "ready"
    /\ lg.prompted
    /\ lg.nAns = 1
    /\ Sent = <<"user", "pass", "n">>

\* C31: during login no device is left waiting at a pagination marker: every
\* marker that arrives before an awaited login prompt has been answered with
\* a keystroke.
C31_LoginPaginationAbsorbed ==
    lg.asked # PaginationMarker

\* C27: the text _execute_command returned for the command just executed
\* holds only pieces the device sent in response to that command.
C27_OwnResponseOnly ==
    st.pc = "idle" /\ st.n > 0 => \A i \in 1..Len(st.ret) : st.ret[i].src = st.n

\* C28: every command is written with exactly one line terminator.
C28_OneTerminator ==
    \A i \in 1..Len(st.writes) : st.writes[i][1] > 0 => st.writes[i][2] = 1

\* C34: building the command list of an action never fails: every lookup an
\* operation makes returns its commands.
C34_CommandListBuilt ==
    (pf.fn = "build" /\ pf.pc = "done") => pf.exc = "none"

\* C35: two runs on one session never hold the same ONU ID: an ID one run
\* has obtained is not obtained by another run, before or after the first
\* registers it.
C35_DistinctOnuIds ==
    \A r1, r2 \in SideRuns :
        (r1 # r2 /\ al.onu_id[r1] # 0 /\ al.onu_id[r2] # 0) => al.onu_id[r1] # al.onu_id[r2]

\* C37: in one batch run the IDs given to ONUs are pairwise distinct, none
\* is among the active IDs read at the start, each lies in 1..128, and after
\* an ONU that found the port full no later ONU is given an ID.
C37_BatchIds ==
    pf.fn = "batch" =>
        /\ \A i, j \in 1..Len(pf.out) :
              (i # j /\ pf.out[i].onu_id # 0) => pf.out[i].onu_id # pf.out[j].onu_id
        /\ \A i \in 1..Len(pf.out) :
              pf.out[i].onu_id # 0 =>
                 /\ \A k \in 1..Len(pf.arg) : pf.arg[k] # pf.out[i].onu_id
                 /\ pf.out[i].onu_id \in 1..128
        /\ \A i, j \in 1..Len(pf.out) :
              (i < j /\ pf.out[i].how = "full") => pf.out[j].onu_id = 0

\* A run has given the port's last free ID to one ONU and found the port
\* full for the next.
C37_Witness ==
    /\ pf.fn = "batch"
    /\ pf.pc = "done"
    /\ \E i, j \in 1..Len(pf.out) :
          i < j /\ pf.out[i].how = "configured" /\ pf.out[j].how = "full"

\* C38: for every list of parsed IDs, find_next_available_onu_id gives what
\* _find_next_available_id gives for that list and an empty reservation
\* list: the same ID, or the capacity failure in the same cases.
C38_SameAllocation ==
    (pf.fn = "onu_id" /\ pf.pc = "done") =>
        /\ pf.exc = FindNextAvailableId(pf.arg, <<>>).exc
        /\ pf.out = FindNextAvailableId(pf.arg, <<>>).out

\* C39: at no moment are two backend requests of the user in flight, and
\* when no handler is running no session object is left busy.
C39_OneRequestPerUser ==
    /\ Cardinality({h \in TgHandlers : tg.handler[h].pc = "request"}) <= 1
    /\ (\A h \in TgHandlers : tg.handler[h].pc = "none")
          => \A o \in 1..MaxObjs : ~tg.obj[o].is_busy

\* A reboot confirmation, which no busy test guards, waits in the queue
\* while a request of the user is in flight on a session with a customer
\* selected.
C39_Witness ==
    /\ \E h \in TgHandlers : tg.handler[h].pc = "request" /\ tg.obj[tg.handler[h].o].cust
    /\ tg.queue # <<>>
    /\ Head(tg.queue) = "cek_reboot_confirm"

\* C24: parsing in get_dba_rate never raises; a line matching the strict
\* interface, channel, numbers pattern yields that rate, otherwise the last
\* number on a line naming the interface is returned, otherwise 0.0.
C24_DbaRateTotal ==
    (pf.fn = "dba" /\ pf.pc = "done") =>
        /\ pf.exc = "none"
        /\ StrictMatch(pf.arg) # 0 => pf.out = StrictMatch(pf.arg)
        /\ (StrictMatch(pf.arg) = 0 /\ FallbackMatch(pf.arg) # 0) => pf.out = Len(pf.arg)
        /\ (StrictMatch(pf.arg) = 0 /\ FallbackMatch(pf.arg) = 0) => pf.out = 0

\* C25: find_unconfigured_onts never fails because of a malformed or partial
\* row; every record it returns has a non-empty serial number, PON slot and
\* PON port, taken from a row that carries the family marker; a row without
\* a serial number gives no record.
C25_UnconfiguredRows ==
    (pf.fn = "uncfg" /\ pf.pc = "done") =>
        /\ pf.exc = "none"
        /\ \A k \in 1..Len(pf.out) :
              /\ pf.out[k].sn # <<>>
              /\ pf.out[k].pon_slot # <<>>
              /\ pf.out[k].pon_port # <<>>
              /\ \E i \in 1..Len(pf.arg) : pf.arg[i] = "u"
              /\ \A i \in 1..Len(pf.out[k].sn) : pf.out[k].sn[i] # "u"
        /\ (\A i \in 1..Len(pf.arg) : pf.arg[i] # "S") => pf.out = <<>>

\* C18: on an OLT/ONU endpoint a ConnectionError raised while the session is
\* acquired (login fails) is answered with HTTP 504.
C18_ConnectionErrorIs504 ==
    [][\A c \in Callers :
          (call[c].kind = "cek" /\ call[c].pc = "login" /\ LoginFails(c))
             => call'[c].res = "504"]_vars

OpenTo(h) == {s \in 1..nsess : sess[s].host = h /\ sess[s].writer = "open"}

\* C9: at every moment at most one connection to a host is open.
C9_OneOpenConnectionPerHost ==
    \A h \in Hosts : Cardinality(OpenTo(h)) <= 1

\* Caller c calls get_connection(h) in this step.
CallsGetConnection(c, h) ==
    /\ call[c].pc = "idle"
    /\ call'[c].pc # "idle"
    /\ call'[c].kind \in {"cek", "sw"}
    /\ call'[c].host = h

\* The call found the entry and changed nothing: the pooled session is
\* returned, no client is made, no stream, login state or keepalive changes,
\* the pool map is as before.
ReturnsPooled(c, h) ==
    /\ call'[c].handler = connections[h]
    /\ connections' = connections
    /\ nsess' = nsess
    /\ sess' = sess

\* C10 as stated: whenever the pool holds an entry for the host with an open
\* writer, get_connection returns it and changes nothing.
C10_HitReturnsPooled_Original ==
    [][\A c \in Callers : \A h \in Hosts :
          (/\ CallsGetConnection(c, h)
           /\ connections[h] # 0
           /\ sess[connections[h]].writer = "open")
          => ReturnsPooled(c, h)]_vars

\* C10 amended: whenever the pool holds an entry for the host with an open
\* writer, and the running event loop is the one the pool has on record,
\* get_connection returns that session and changes nothing.
C10_HitReturnsPooled ==
    [][\A c \in Callers : \A h \in Hosts :
          (/\ CallsGetConnection(c, h)
           /\ connections[h] # 0
           /\ sess[connections[h]].writer = "open"
           /\ current_loop_id[ManagerOf(h)] = running_loop)
          => ReturnsPooled(c, h)]_vars

\* A caller holds the pooled session of its host, returned from the pool.
C10_Witness ==
    \E c \in Callers :
        /\ call[c].via = "hit"
        /\ call[c].handler # 0
        /\ connections[call[c].host] = call[c].handler
        /\ sess[call[c].handler].writer = "open"

StepHost(c) == IF call[c].pc = "idle" THEN call'[c].host ELSE call[c].host

\* The pool entry and the client objects of host b are left as they are.
HostUntouched(b) ==
    /\ connections'[b] = connections[b]
    /\ \A s \in 1..nsess : sess[s].host = b => sess'[s] = sess[s]

\* Some step of handler task c can be taken.
CanStep(c) ==
    ENABLED (\/ OpenFail(c) \/ OpenDone(c) \/ LoginMatch(c) \/ LoginTimeout(c)
             \/ LoginEof(c) \/ DpDrained(c) \/ DpRaises(c) \/ DpRead(c)
             \/ ReadChunk(c) \/ CmdDrained(c) \/ CmdDrainRaises(c) \/ CmdRead(c)
             \/ CmdReadTimeout(c) \/ DetectRetry(c))

\* C26: with the event loop unchanged, a step of an endpoint that acquires,
\* uses, fails on or evicts the session of one host leaves the pool entry,
\* the stream and the login state of every other host as they are; a step
\* of a keepalive or of a device touches one session and no pool entry; and
\* a handler task in the middle of an operation can always take its next
\* step, whatever the task on the other host is doing.
C26_HostsIndependent ==
    [][/\ \A c \in Callers :
             (call'[c] # call[c] /\ now' = now) =>
                 \A b \in Hosts \ {StepHost(c)} : HostUntouched(b)
       /\ (call' = call /\ now' = now) =>
             /\ connections' = connections
             /\ \A s, t \in Sids : (sess'[s] # sess[s] /\ sess'[t] # sess[t]) => s = t
       /\ \A c \in Callers : call[c].pc # "idle" => CanStep(c)]_vars

\* One task is in a command on the first OLT while the other task is in a
\* command on the second, each on its own pooled session.
C26_Witness ==
    /\ connections["olt1"] # 0
    /\ connections["olt2"] # 0
    /\ call["r1"].pc = "cmd_read" /\ call["r1"].host = "olt1"
    /\ call["r2"].pc = "cmd_drain" /\ call["r2"].host = "olt2"

====
